---------------------------- MODULE Spec2Model ----------------------------
(***************************************************************************)
(* A model of the image conversion pipeline of simple-image-converter-app  *)
(* (src/src/convert.rs).                                                   *)
(*                                                                         *)
(* Bytes are integers 0..255, byte strings are sequences of bytes and file *)
(* name extensions are sequences of character codes.  Specifications that  *)
(* share the variables:                                                    *)
(*   SpecMagic   validate_file_magic applied to bounded files              *)
(*   SpecPatch   patch_orientation_in_place applied to bounded EXIF blobs  *)
(*   SpecConvert one run of convert_image, one action per stage            *)
(*   SpecMeta, SpecOrient, SpecName, SpecPar, SpecList, SpecBatch and      *)
(*   SpecSettings, each described where it is defined                      *)
(* A specification leaves the variables of the others at their idle        *)
(* values.                                                                 *)
(***************************************************************************)
EXTENDS Integers, Sequences, FiniteSets, TLC

VARIABLES
    mfile,      \* SpecMagic: the file handed to validate_file_magic
    mresult,    \* SpecMagic: its result ("none" before the call)
    orig,       \* SpecPatch: the blob as first given
    prev,       \* SpecPatch: the blob before the latest patch
    payload,    \* SpecPatch: the blob (full_payload)
    npatch,     \* SpecPatch: number of calls made on payload
    panicked,   \* SpecPatch: some call indexed outside the slice
    pc,         \* SpecConvert: position in convert_image
    src,        \* SpecConvert: the source file
    opts,       \* SpecConvert: the ConversionOptions
    img,        \* SpecConvert: the in-flight DynamicImage
    metadata,   \* SpecConvert: Option<Metadata> carried to the encoder
    buf,        \* SpecConvert: the encoder's output buffer
    out,        \* SpecConvert: the file at the output path
    result,     \* SpecConvert: the outcome of the run
    trace,      \* SpecConvert: the stages executed, in order
    env,        \* SpecConvert: what the libraries and the OS answered
    carry,      \* SpecMeta: the EXIF blob from the source to the output
    turn,       \* SpecOrient: an image through apply_orientation
    naming,     \* SpecName: a source and options through the two derivations
    par,        \* SpecPar: two runs of convert_image over one file system
    app,        \* SpecApp: the AppState and the messages in flight
    store       \* SpecSettings: the settings table and the options in memory

vars == <<mfile, mresult, orig, prev, payload, npatch, panicked,
          pc, src, opts, img, metadata, buf, out, result, trace, env,
          carry, turn, naming, par, app, store>>

magicVars   == <<mfile, mresult>>
patchVars   == <<orig, prev, payload, npatch, panicked>>
convertVars == <<pc, src, opts, img, metadata, buf, out, result, trace, env>>
moreVars    == <<par, app, store>>
extraVars   == <<carry, turn, naming, par, app, store>>

(***************************************************************************)
(* Byte-string helpers (slice::starts_with, slicing, str::to_lowercase).   *)
(***************************************************************************)
Min(a, b) == IF a < b THEN a ELSE b

Take(s, n) == SubSeq(s, 1, Min(n, Len(s)))

StartsWith(s, p) == Len(s) >= Len(p) /\ SubSeq(s, 1, Len(p)) = p

\* s[lo..hi) with 0-based bounds, as Rust slices it (the caller keeps hi <= len)
Slice(s, lo, hi) == SubSeq(s, lo + 1, hi)

\* ASCII lowercase of one character code
LowerChar(c) == IF c >= 65 /\ c <= 90 THEN c + 32 ELSE c

ToLowercase(s) == [i \in 1..Len(s) |-> LowerChar(s[i])]

\* n zero bytes
Zeros(n) == [i \in 1..n |-> 0]

(***************************************************************************)
(* Signatures and extensions.                                              *)
(***************************************************************************)
MAGIC_JPEG == <<255, 216, 255>>
MAGIC_PNG  == <<137, 80, 78, 71>>
MAGIC_WEBP == <<82, 73, 70, 70>>          \* "RIFF"
MAGIC_HEIC == <<102, 116, 121, 112>>      \* "ftyp"
WEBP_TAG   == <<87, 69, 66, 80>>          \* "WEBP"

ExtJpg  == <<106, 112, 103>>
ExtJpeg == <<106, 112, 101, 103>>
ExtPng  == <<112, 110, 103>>
ExtWebp == <<119, 101, 98, 112>>
ExtHeic == <<104, 101, 105, 99>>
ExtHeif == <<104, 101, 105, 102>>
ExtGif  == <<103, 105, 102>>
ExtJPG  == <<74, 80, 71>>                 \* "JPG"
ExtPnG  == <<80, 110, 71>>                \* "PnG"
ExtHEIF == <<72, 69, 73, 70>>             \* "HEIF"
ExtNone == << >>                          \* no extension

\* let mut header = [0u8; 12]; read(&mut file, &mut header): the first bytes of
\* the file, the rest of the array staying zero
ReadHeader(bytes) == Take(bytes, 12) \o Zeros(12 - Min(12, Len(bytes)))

\* mutant: the "webp" arm without the test of header[8..12]
HeaderValid_RiffOnly(ext, header) ==
    IF ext \in {ExtJpg, ExtJpeg} THEN StartsWith(header, MAGIC_JPEG)
    ELSE IF ext = ExtPng THEN StartsWith(header, MAGIC_PNG)
    ELSE IF ext = ExtWebp THEN StartsWith(header, MAGIC_WEBP)
    ELSE IF ext \in {ExtHeic, ExtHeif} THEN Slice(header, 4, 8) = MAGIC_HEIC
    ELSE TRUE

\* the match of validate_file_magic on the lowercased extension
HeaderValid(ext, header) ==
    IF ext \in {ExtJpg, ExtJpeg} THEN StartsWith(header, MAGIC_JPEG)
    ELSE IF ext = ExtPng THEN StartsWith(header, MAGIC_PNG)
    ELSE IF ext = ExtWebp
         THEN StartsWith(header, MAGIC_WEBP) /\ Slice(header, 8, 12) = WEBP_TAG
    ELSE IF ext \in {ExtHeic, ExtHeif} THEN Slice(header, 4, 8) = MAGIC_HEIC
    ELSE TRUE

\* validate_file_magic(path): "Io" when the file cannot be opened
validate_file_magic(f) ==
    IF ~f.openable THEN "Io"
    ELSE IF HeaderValid(ToLowercase(f.ext), ReadHeader(f.bytes))
         THEN "Ok"
         ELSE "FormatMismatch"

(***************************************************************************)
(* Idle values of each specification's variables.                          *)
(***************************************************************************)
MagicIdle ==
    /\ mfile = [ext |-> ExtNone, bytes |-> << >>, openable |-> FALSE]
    /\ mresult = "idle"

PatchIdle ==
    /\ orig = << >>
    /\ prev = << >>
    /\ payload = << >>
    /\ npatch = 0
    /\ panicked = FALSE

ConvertIdle ==
    /\ pc = "idle"
    /\ src = << >>
    /\ opts = << >>
    /\ img = << >>
    /\ metadata = << >>
    /\ buf = << >>
    /\ out = << >>
    /\ result = "idle"
    /\ trace = << >>
    /\ env = << >>

CarryIdle == carry = << >>
TurnIdle  == turn = << >>
NameIdle  == naming = << >>
ParIdle   == par = << >>
AppIdle   == app = << >>
StoreIdle == store = << >>

MoreIdle  == ParIdle /\ AppIdle /\ StoreIdle
ExtraIdle == CarryIdle /\ TurnIdle /\ NameIdle /\ MoreIdle

(***************************************************************************)
(* SpecMagic: validate_file_magic on bounded files.                        *)
(* A file is one of the base headers, with at most one byte replaced, cut  *)
(* to a length of 0..MaxFileLen bytes.                                     *)
(***************************************************************************)
MaxFileLen == 13

MagicExts == {ExtJpg, ExtJpeg, ExtPng, ExtWebp, ExtHeic, ExtHeif, ExtGif,
              ExtJPG, ExtPnG, ExtHEIF, ExtNone}

\* base contents: a JPEG, a PNG, a WebP and a HEIC file, and zeros
BaseJpeg == <<255, 216, 255, 224, 0, 16, 74, 70, 73, 70, 0, 1, 1, 0>>
BasePng  == <<137, 80, 78, 71, 13, 10, 26, 10, 0, 0, 0, 13, 73, 72>>
BaseWebp == <<82, 73, 70, 70, 36, 0, 0, 0, 87, 69, 66, 80, 86, 80>>
BaseHeic == <<0, 0, 0, 24, 102, 116, 121, 112, 104, 101, 105, 99, 0, 0>>
BaseZero == Zeros(14)

MagicBases == {BaseJpeg, BasePng, BaseWebp, BaseHeic, BaseZero}

MutBytes == {0, 82, 255}

\* b with byte number p (1-based; 0: none) replaced by v
Mutate(b, p, v) == [i \in 1..Len(b) |-> IF i = p THEN v ELSE b[i]]

MagicFiles ==
    { Take(Mutate(b, p, v), n) :
        b \in MagicBases, p \in 0..12, v \in MutBytes, n \in 0..MaxFileLen }

InitMagic ==
    /\ mfile \in [ext : MagicExts, bytes : MagicFiles, openable : BOOLEAN]
    /\ mresult = "none"
    /\ PatchIdle
    /\ ConvertIdle
    /\ ExtraIdle

\* one call of validate_file_magic(path)
ValidateFileMagic ==
    /\ mresult = "none"
    /\ mresult' = validate_file_magic(mfile)
    /\ UNCHANGED <<mfile, patchVars, convertVars, extraVars>>

NextMagic == ValidateFileMagic

SpecMagic == InitMagic /\ [][NextMagic]_vars

(***************************************************************************)
(* C1                                                                      *)
(***************************************************************************)
\* e spells name in any mix of upper and lower case
IsExt(e, name) ==
    /\ Len(e) = Len(name)
    /\ \A i \in 1..Len(e) : e[i] = name[i] \/ e[i] = name[i] - 32

\* the documented signature of the extension, read off the file's own bytes
SigJpeg(b) == Len(b) >= 3 /\ b[1] = 255 /\ b[2] = 216 /\ b[3] = 255
SigPng(b)  == Len(b) >= 4 /\ b[1] = 137 /\ b[2] = 80 /\ b[3] = 78 /\ b[4] = 71
SigWebp(b) == /\ Len(b) >= 12
              /\ b[1] = 82 /\ b[2] = 73 /\ b[3] = 70 /\ b[4] = 70
              /\ b[9] = 87 /\ b[10] = 69 /\ b[11] = 66 /\ b[12] = 80
SigHeic(b) == /\ Len(b) >= 8
              /\ b[5] = 102 /\ b[6] = 116 /\ b[7] = 121 /\ b[8] = 112

\* C1: a file that can be opened is accepted by validate_file_magic exactly
\* when its leading bytes carry the signature of its extension (compared
\* without regard to case): FF D8 FF for jpg/jpeg, 89 50 4E 47 for png, RIFF
\* at 0 and WEBP at 8 for webp, ftyp at 4 for heic/heif; any other header is
\* rejected with FormatMismatch, and any other extension is accepted.
C1_MagicExact ==
    (mresult # "none" /\ mfile.openable) =>
        LET e == mfile.ext
            b == mfile.bytes
            accepted == (mresult = "Ok")
        IN  /\ mresult \in {"Ok", "FormatMismatch"}
            /\ IF IsExt(e, ExtJpg) \/ IsExt(e, ExtJpeg) THEN accepted <=> SigJpeg(b)
               ELSE IF IsExt(e, ExtPng) THEN accepted <=> SigPng(b)
               ELSE IF IsExt(e, ExtWebp) THEN accepted <=> SigWebp(b)
               ELSE IF IsExt(e, ExtHeic) \/ IsExt(e, ExtHeif)
                    THEN accepted <=> SigHeic(b)
               ELSE accepted

\* a .webp file that starts with RIFF but lacks WEBP at offset 8 was rejected
C1_Witness ==
    /\ mresult = "FormatMismatch"
    /\ mfile.ext = ExtWebp
    /\ StartsWith(mfile.bytes, MAGIC_WEBP)
    /\ Len(mfile.bytes) >= 12

(***************************************************************************)
(* patch_orientation_in_place (convert.rs:123-167).                        *)
(*                                                                         *)
(* A u32 is kept as two 16-bit limbs [hi, lo], usize is 64 bits wide (the  *)
(* sums offset + 2 and pos + 12 cannot wrap), and every index into the     *)
(* slice is checked: an index outside it is the panic of Rust's bounds     *)
(* check.  The operators return [bytes, panic].                            *)
(***************************************************************************)
EXIF_HEADER == <<69, 120, 105, 102, 0, 0>>     \* b"Exif\0\0"
TIFF_II     == <<73, 73>>                      \* b"II"

\* u16::from_le_bytes / u16::from_be_bytes
U16(is_le, b0, b1) == IF is_le THEN b0 + 256 * b1 ELSE 256 * b0 + b1

\* u32::from_le_bytes / u32::from_be_bytes, as limbs
U32(is_le, b0, b1, b2, b3) ==
    IF is_le THEN [hi |-> b2 + 256 * b3, lo |-> b0 + 256 * b1]
             ELSE [hi |-> 256 * b0 + b1, lo |-> 256 * b2 + b3]

\* x + k in usize
AddUsize(x, k) ==
    [hi |-> x.hi + ((x.lo + k) \div 65536), lo |-> (x.lo + k) % 65536]

\* x > n for a slice length n (below 65536)
GtLen(x, n) == x.hi > 0 \/ x.lo > n

\* x as an index; 65536 stands for every index beyond the model's slices
ToIndex(x) == IF x.hi = 0 THEN x.lo ELSE 65536

\* t[i] with 0-based i; 0 where the index is outside (the panic is recorded
\* by the caller through InB)
InB(t, i) == i >= 0 /\ i < Len(t)
Rd(t, i) == IF InB(t, i) THEN t[i + 1] ELSE 0

NoChange(t) == [bytes |-> t, panic |-> FALSE]
Panic(t)    == [bytes |-> t, panic |-> TRUE]

\* mutant: the length test of line 124 left out
EarlyReturn_MarkerOnly(p) == ~StartsWith(p, EXIF_HEADER)

\* line 124: the early return
EarlyReturn(p) == ~StartsWith(p, EXIF_HEADER) \/ Len(p) < 18

\* line 135: offset + 2 > tiff_data.len()
OffsetOutside(offset, len) == GtLen(AddUsize(offset, 2), len)

\* mutant: only the two bytes of the tag are bounds-checked
ScanBreak_TagOnly(pos, len) == pos + 2 > len

\* line 146: pos + 12 > tiff_data.len()
ScanBreak(pos, len) == pos + 12 > len

\* mutant: the value is written little-endian whatever the byte order
WriteOne_AlwaysLE(t, is_le, val) ==
    [t EXCEPT ![val + 1] = 1, ![val + 2] = 0]

\* mutant: the value is written as a 4-byte LONG
WriteOne_Long(t, is_le, val) ==
    [t EXCEPT ![val + 1] = IF is_le THEN 1 ELSE 0,
              ![val + 2] = 0,
              ![val + 3] = 0,
              ![val + 4] = IF is_le THEN 0 ELSE 1]

\* lines 156-162: the two bytes at val and val + 1 (0-based)
WriteOne(t, is_le, val) ==
    [t EXCEPT ![val + 1] = IF is_le THEN 1 ELSE 0,
              ![val + 2] = IF is_le THEN 0 ELSE 1]

\* mutant: no break after the write, every orientation entry is rewritten
RECURSIVE ScanEntries_NoBreak(_, _, _, _)
ScanEntries_NoBreak(t, is_le, pos, n) ==
    IF n = 0 THEN NoChange(t)
    ELSE IF ScanBreak(pos, Len(t)) THEN NoChange(t)
    ELSE IF ~InB(t, pos) \/ ~InB(t, pos + 1) THEN Panic(t)
    ELSE IF U16(is_le, Rd(t, pos), Rd(t, pos + 1)) = 274
         THEN LET val == pos + 8
              IN  IF InB(t, val) /\ InB(t, val + 1)
                  THEN ScanEntries_NoBreak(WriteOne(t, is_le, val), is_le,
                                           pos + 12, n - 1)
                  ELSE Panic(t)
    ELSE ScanEntries_NoBreak(t, is_le, pos + 12, n - 1)

\* lines 145-166: the loop, with n iterations left
RECURSIVE ScanEntries(_, _, _, _)
ScanEntries(t, is_le, pos, n) ==
    IF n = 0 THEN NoChange(t)
    ELSE IF ScanBreak(pos, Len(t)) THEN NoChange(t)
    ELSE IF ~InB(t, pos) \/ ~InB(t, pos + 1) THEN Panic(t)
    ELSE IF U16(is_le, Rd(t, pos), Rd(t, pos + 1)) = 274
         THEN LET val == pos + 8
              IN  IF InB(t, val) /\ InB(t, val + 1)
                  THEN [bytes |-> WriteOne(t, is_le, val), panic |-> FALSE]
                  ELSE Panic(t)
    ELSE ScanEntries(t, is_le, pos + 12, n - 1)

\* lines 127-166, on tiff_data = full_payload[6..]
PatchTiff(t) ==
    LET is_le == StartsWith(t, TIFF_II)
    IN  IF \E i \in 4..7 : ~InB(t, i) THEN Panic(t)
        ELSE
        LET offset == U32(is_le, Rd(t, 4), Rd(t, 5), Rd(t, 6), Rd(t, 7))
        IN  IF OffsetOutside(offset, Len(t)) THEN NoChange(t)
            ELSE
            LET o == ToIndex(offset)
            IN  IF ~InB(t, o) \/ ~InB(t, o + 1) THEN Panic(t)
                ELSE ScanEntries(t, is_le, o + 2,
                                 U16(is_le, Rd(t, o), Rd(t, o + 1)))

patch_orientation_in_place(p) ==
    IF EarlyReturn(p) THEN NoChange(p)
    ELSE IF Len(p) < 6 THEN Panic(p)           \* &mut full_payload[6..]
    ELSE LET r == PatchTiff(SubSeq(p, 7, Len(p)))
         IN  [bytes |-> SubSeq(p, 1, 6) \o r.bytes, panic |-> r.panic]

(***************************************************************************)
(* SpecPatch: patch_orientation_in_place on bounded blobs.                 *)
(*                                                                         *)
(* A blob is marker, TIFF signature, IFD0 offset, entry count, up to       *)
(* MaxEntries 12-byte entries and the next-IFD offset.  PatchCut holds     *)
(* every truncation of the blobs with plain entries; PatchWhole the whole  *)
(* blobs with every mix of tags and values.                                *)
(***************************************************************************)
MaxEntries == 2
MaxPatches == 2

BadMarker == <<69, 120, 105, 102, 0, 1>>

SigII == <<73, 73, 42, 0>>
SigMM == <<77, 77, 0, 42>>
SigIM == <<73, 77, 42, 0>>                  \* neither "II" nor "MM"

\* IFD0 offsets: 8 in either byte order, 10 (inside the directory), 0,
\* 2^32 - 1 and 2^32 - 2
PatchOffsets == {<<8, 0, 0, 0>>, <<0, 0, 0, 8>>, <<0, 0, 0, 10>>, <<0, 0, 0, 0>>,
                 <<255, 255, 255, 255>>, <<254, 255, 255, 255>>}

\* entry counts: 0, 1, 2 in either byte order, and 65535
PatchCounts == {<<0, 0>>, <<1, 0>>, <<0, 1>>, <<2, 0>>, <<255, 255>>}

TagOrientLE == <<18, 1>>                    \* 0x0112, little-endian
TagOrientBE == <<1, 18>>                    \* 0x0112, big-endian
TagMake     == <<15, 1>>                    \* 0x010F

\* one directory entry: tag, type SHORT, count 1, value
Entry(tag, val) == tag \o <<3, 0, 1, 0, 0, 0>> \o val \o <<0, 0>>

PlainEntries == {Entry(TagOrientLE, <<6, 0>>), Entry(TagOrientBE, <<0, 6>>)}

MixedEntries == { Entry(tag, val) :
                    tag \in {TagOrientLE, TagOrientBE, TagMake},
                    val \in {<<1, 0>>, <<0, 1>>, <<6, 0>>} }

\* the concatenations of at most n entries of E
RECURSIVE EntrySeqs(_, _)
EntrySeqs(E, n) ==
    IF n = 0 THEN {<< >>}
    ELSE LET shorter == EntrySeqs(E, n - 1)
         IN  shorter \cup { e \o s : e \in E, s \in shorter }

MkBlob(marker, sig, off, cnt, entries) ==
    marker \o sig \o off \o cnt \o entries \o <<0, 0, 0, 0>>

PatchCut ==
    UNION { { Take(b, n) : n \in 0..Len(b) } :
            b \in { MkBlob(m, sg, off, cnt, es) :
                      m \in {EXIF_HEADER, BadMarker},
                      sg \in {SigII, SigMM, SigIM},
                      off \in PatchOffsets,
                      cnt \in PatchCounts,
                      es \in EntrySeqs(PlainEntries, MaxEntries) } }

PatchWhole ==
    { MkBlob(EXIF_HEADER, sg, off, cnt, es) :
        sg \in {SigII, SigMM, SigIM},
        off \in {<<8, 0, 0, 0>>, <<0, 0, 0, 8>>},
        cnt \in {<<1, 0>>, <<0, 2>>, <<255, 255>>},
        es \in EntrySeqs(MixedEntries, MaxEntries) }

InitPatch ==
    /\ orig \in PatchCut \cup PatchWhole
    /\ prev = orig
    /\ payload = orig
    /\ npatch = 0
    /\ panicked = FALSE
    /\ MagicIdle
    /\ ConvertIdle
    /\ ExtraIdle

\* one call patch_orientation_in_place(&mut payload)
Patch ==
    /\ npatch < MaxPatches
    /\ LET r == patch_orientation_in_place(payload)
       IN  /\ payload' = r.bytes
           /\ panicked' = (panicked \/ r.panic)
    /\ prev' = payload
    /\ npatch' = npatch + 1
    /\ UNCHANGED <<orig, magicVars, convertVars, extraVars>>

NextPatch == Patch

SpecPatch == InitPatch /\ [][NextPatch]_vars

(***************************************************************************)
(* C8                                                                      *)
(***************************************************************************)
HasMarker(b) ==
    /\ Len(b) >= 6
    /\ b[1] = 69 /\ b[2] = 120 /\ b[3] = 105 /\ b[4] = 102 /\ b[5] = 0 /\ b[6] = 0

\* C8: a blob shorter than 18 bytes, or one that does not start with the
\* marker "Exif\0\0", is byte-identical after patch_orientation_in_place and
\* the call raised no error.
C8_ShortOrUnmarkedUntouched ==
    (npatch >= 1 /\ (Len(orig) < 18 \/ ~HasMarker(orig))) =>
        (payload = orig /\ ~panicked)

\* a marked blob of 17 bytes was patched
C8_Witness ==
    /\ npatch >= 1
    /\ HasMarker(orig)
    /\ Len(orig) = 17

(***************************************************************************)
(* C9                                                                      *)
(***************************************************************************)
\* C9: no call of patch_orientation_in_place indexes outside the blob, for
\* every IFD0 offset, entry count and truncation point: the scan ends without
\* a panic and the blob keeps its length.
C9_NoOutOfBounds ==
    npatch >= 1 => (~panicked /\ Len(payload) = Len(orig))

\* a marked blob with IFD0 offset 8, entry count 65535 and its second entry
\* cut short was patched
C9_Witness ==
    /\ npatch >= 1
    /\ HasMarker(orig)
    /\ Len(orig) = 36
    /\ SubSeq(orig, 7, 16) = SigII \o <<8, 0, 0, 0>> \o <<255, 255>>

\* a marked blob whose IFD0 offset is 2^32 - 1 was patched
C9_WitnessMaxOffset ==
    /\ npatch >= 1
    /\ HasMarker(orig)
    /\ Len(orig) >= 18
    /\ SubSeq(orig, 11, 14) = <<255, 255, 255, 255>>

(***************************************************************************)
(* C10                                                                     *)
(***************************************************************************)
\* The blob read as the documentation describes it, on 1-based positions of
\* the whole blob: the byte order, the IFD0 offset (when its high half is 0),
\* the entry count, and entry k at 6 + offset + 2 + 12k.
BlobLE(b) == b[7] = 73 /\ b[8] = 73
BlobOffsetSmall(b) ==
    IF BlobLE(b) THEN b[13] = 0 /\ b[14] = 0 ELSE b[11] = 0 /\ b[12] = 0
BlobOffset(b) ==
    IF BlobLE(b) THEN b[11] + 256 * b[12] ELSE 256 * b[13] + b[14]
BlobWord(b, at) ==
    IF BlobLE(b) THEN b[at] + 256 * b[at + 1] ELSE 256 * b[at] + b[at + 1]
BlobCount(b) == BlobWord(b, 7 + BlobOffset(b))
BlobEntryAt(b, k) == 7 + BlobOffset(b) + 2 + 12 * k

\* the blob has a readable directory
BlobReadable(b) ==
    /\ HasMarker(b)
    /\ Len(b) >= 18
    /\ BlobOffsetSmall(b)
    /\ 6 + BlobOffset(b) + 2 <= Len(b)

\* the entries the scan can read: the first count entries that lie in the blob
BlobEntries(b) ==
    { k \in 0..(Len(b) \div 12) :
        k < BlobCount(b) /\ BlobEntryAt(b, k) + 11 <= Len(b) }

BlobOrientEntries(b) ==
    { k \in BlobEntries(b) : BlobWord(b, BlobEntryAt(b, k)) = 274 }

\* the first orientation entry of IFD0 already holds 1
AlreadyNormal(b) ==
    /\ BlobReadable(b)
    /\ BlobOrientEntries(b) # {}
    /\ LET k == CHOOSE x \in BlobOrientEntries(b) :
                    \A y \in BlobOrientEntries(b) : x <= y
       IN  BlobWord(b, BlobEntryAt(b, k) + 8) = 1

\* C10: patching is idempotent, patching a patched blob gives the patched
\* blob again, and a blob whose first IFD0 orientation entry already holds
\* 1 is byte-identical after the patch.
C10_Idempotent ==
    /\ npatch >= 2 => payload = prev
    /\ (npatch >= 1 /\ AlreadyNormal(orig)) => payload = orig

\* a blob that the first patch changed was patched a second time
C10_Witness ==
    /\ npatch = 2
    /\ prev # orig

\* a big-endian blob whose orientation already was 1 was patched
C10_WitnessNormal ==
    /\ npatch >= 1
    /\ AlreadyNormal(orig)
    /\ ~BlobLE(orig)

(***************************************************************************)
(* C11                                                                     *)
(***************************************************************************)
\* the first orientation entry among the entries the scan can read
BlobFirstOrient(b) ==
    CHOOSE x \in BlobOrientEntries(b) : \A y \in BlobOrientEntries(b) : x <= y

\* the 1-based positions of the value field (offsets 8 and 9) of the first
\* orientation entry; none when the blob has no such entry
BlobValueField(b) ==
    IF BlobReadable(b) /\ BlobOrientEntries(b) # {}
    THEN { BlobEntryAt(b, BlobFirstOrient(b)) + 8,
           BlobEntryAt(b, BlobFirstOrient(b)) + 9 }
    ELSE {}

Changed(a, b) == { i \in 1..Min(Len(a), Len(b)) : a[i] # b[i] }

\* C11: patch_orientation_in_place never changes the blob's length, and the
\* only bytes it may change are the two bytes at offsets 8 and 9 of the
\* first IFD0 entry whose tag is 0x0112; the marker, the TIFF header, the
\* entry count, every other entry and the bytes after the directory stay.
C11_FrameTwoBytes ==
    npatch >= 1 =>
        /\ Len(payload) = Len(orig)
        /\ Changed(payload, orig) \subseteq BlobValueField(orig)

\* a patch changed both bytes of a value field (a big-endian directory
\* whose orientation entry held 0x0100)
C11_Witness ==
    /\ npatch >= 1
    /\ Cardinality(Changed(payload, orig)) = 2

(***************************************************************************)
(* C12                                                                     *)
(***************************************************************************)
\* the first count entries all lie within the blob
BlobComplete(b) ==
    /\ BlobReadable(b)
    /\ BlobEntryAt(b, BlobCount(b)) - 1 <= Len(b)

\* C12: for a marker-prefixed blob of at least 18 bytes whose directory lies
\* within the blob and holds tag 0x0112, after the patch the value field of
\* the first orientation entry decodes to 1 in the blob's byte order
\* (little-endian for "II", big-endian for any other signature) and every
\* later entry, orientation entries included, is as it was.
C12_FirstOrientationSetToOne ==
    (npatch >= 1 /\ BlobComplete(orig) /\ BlobOrientEntries(orig) # {}) =>
        LET at == BlobEntryAt(orig, BlobFirstOrient(orig))
        IN  /\ IF BlobLE(orig)
               THEN payload[at + 8] = 1 /\ payload[at + 9] = 0
               ELSE payload[at + 8] = 0 /\ payload[at + 9] = 1
            /\ SubSeq(payload, at + 12, Len(payload))
                   = SubSeq(orig, at + 12, Len(orig))

\* a directory of two orientation entries under a signature that is neither
\* "II" nor "MM": the first was rewritten, the second still holds 0x0600
C12_Witness ==
    /\ npatch >= 1
    /\ BlobComplete(orig)
    /\ SubSeq(orig, 7, 8) = <<73, 77>>
    /\ BlobOrientEntries(orig) = {0, 1}
    /\ payload # orig
    /\ BlobWord(payload, BlobEntryAt(orig, 1) + 8) = 1536

\* a little-endian directory whose second entry is the orientation entry
C12_WitnessLE ==
    /\ npatch >= 1
    /\ BlobComplete(orig)
    /\ BlobLE(orig)
    /\ BlobOrientEntries(orig) = {1}
    /\ payload # orig

(***************************************************************************)
(* convert_image (convert.rs:380-490) and the encoders it calls.           *)
(*                                                                         *)
(* What a library or the operating system answers (a decode, an encoder,   *)
(* a container parse, File::create, a write) is chosen by the action that  *)
(* asks and kept in env.  An encoder output is the record of its encoder,  *)
(* the pixels it was given and its quality.                                *)
(***************************************************************************)
MAX_FILE_SIZE == 100 * 1024 * 1024

None == [some |-> FALSE, exif |-> << >>]
Some(e) == [some |-> TRUE, exif |-> e]

\* lines 384-387: metadata(..).map(|m| m.len()).unwrap_or(0); a file that
\* could be opened can be stat'ed
FileSize(f) == IF f.openable THEN f.size ELSE 0

\* mutant: the ceiling itself is rejected
TooLarge_Inclusive(file_size) == file_size >= MAX_FILE_SIZE

\* line 385
TooLarge(file_size) == file_size > MAX_FILE_SIZE

\* lines 389-395
IsHeic(ext) == ext = ExtHeic \/ ext = ExtHeif

\* mutant: only "heic" is exempt from apply_orientation
NeedsOrient_HeicOnly(ext) == ext # ExtHeic

\* line 404
NeedsOrient(ext) == ext # ExtHeic /\ ext # ExtHeif

\* mutant: the target format is not looked at
WantsMetadata_AnyTarget(o, ext) ==
    o.keep_metadata /\ (ext = ExtJpg \/ ext = ExtJpeg)

\* lines 408-410
WantsMetadata(o, ext) ==
    o.keep_metadata /\ (ext = ExtJpg \/ ext = ExtJpeg) /\ o.format = "Jpeg"

\* lines 209-218: the transform of apply_orientation on the image's record
ApplyOrientation(image, o) ==
    IF o \in {5, 6, 7, 8}
    THEN [image EXCEPT !.w = image.h, !.h = image.w, !.xform = o]
    ELSE IF o \in {2, 3, 4} THEN [image EXCEPT !.xform = o]
    ELSE image

\* mutant: the pixels count as transformed whatever lcms2 answered
ApplyProfile_Always(image, icc) ==
    IF icc = "none" THEN image
    ELSE [image EXCEPT !.layout = IF image.alpha THEN "Rgba8" ELSE "Rgb8",
                       !.corrected = TRUE]

\* lines 416-423: the layout is normalised, the transform applied when lcms2
\* accepts the profile; its error is dropped
ApplyProfile(image, icc) ==
    IF icc = "none" THEN image
    ELSE [image EXCEPT !.layout = IF image.alpha THEN "Rgba8" ELSE "Rgb8",
                       !.corrected = (icc = "valid")]

\* n * a / b rounded to the nearest integer, at least 1
ScaleRound(n, a, b) ==
    LET r == (2 * n * a + b) \div (2 * b) IN IF r < 1 THEN 1 ELSE r

\* u32::MAX, 2^32 - 1.  TLC's integers end at 2^31 - 1, and that number
\* stands for it: like u32::MAX it is above every side an image of the model
\* has, which is all that lines 431-434 and FitDims ask of it.
U32_MAX == 2147483647

\* the digits of a decimal string as a number
RECURSIVE DigitsValue(_, _)
DigitsValue(s, acc) ==
    IF s = << >> THEN acc
    ELSE DigitsValue(Tail(s), 10 * acc + (Head(s) - 48))

\* str::parse::<u32>: an optional '+', then one or more digits; the strings
\* of the model have at most 9 digits, so none is above u32::MAX
ParseU32(s) ==
    LET d == IF s # << >> /\ Head(s) = 43 THEN Tail(s) ELSE s
    IN  IF d = << >> \/ Len(d) > 9 \/ \E i \in 1..Len(d) : d[i] \notin 48..57
        THEN [ok |-> FALSE, value |-> 0]
        ELSE [ok |-> TRUE, value |-> DigitsValue(d, 0)]

\* lines 427-428: parse().unwrap_or(0)
TargetSide(s) == IF ParseU32(s).ok THEN ParseU32(s).value ELSE 0

\* lines 431-434: a side of 0 becomes u32::MAX
FinalSide(n) == IF n = 0 THEN U32_MAX ELSE n

\* wratio <= hratio in resize_dimensions, fw / w <= fh / h; a side of
\* u32::MAX has the larger ratio
WidthBinds(w, h, fw, fh) ==
    IF fh = U32_MAX THEN TRUE
    ELSE IF fw = U32_MAX THEN FALSE
    ELSE fw * h <= fh * w

\* DynamicImage::resize(fw, fh, Lanczos3) keeps the aspect ratio and fits the
\* image into fw x fh
FitDims(w, h, fw, fh) ==
    IF WidthBinds(w, h, fw, fh)
    THEN [w |-> ScaleRound(w, fw, w), h |-> ScaleRound(h, fw, w)]
    ELSE [w |-> ScaleRound(w, fh, h), h |-> ScaleRound(h, fh, h)]

\* line 430: a resize happens
WillResize(o) ==
    o.resize /\ (TargetSide(o.target_width) > 0 \/ TargetSide(o.target_height) > 0)

\* lines 425-442 with resize_image_fast (241-259): the primary resizer gives
\* exactly fw x fh in RGBA8, the fallback what DynamicImage::resize gives
Resized(image, fw, fh, primary_ok) ==
    IF primary_ok
    THEN [image EXCEPT !.w = fw, !.h = fh, !.layout = "Rgba8",
                       !.alpha = TRUE, !.resized = "CatmullRom"]
    ELSE LET d == FitDims(image.w, image.h, fw, fh)
         IN  [image EXCEPT !.w = d.w, !.h = d.h, !.resized = "Lanczos3"]

\* lines 271-283: mozjpeg on img.to_rgb8(), quality clamped to 99
PrimaryEncode(image, quality) ==
    [enc |-> "mozjpeg", px |-> image, quality |-> Min(quality, 99), valid |-> TRUE]

\* mutant: the fallback clamps the quality as the primary encoder does
FallbackEncode_Clamped(image, quality) ==
    [enc |-> "jpeg_encoder", px |-> image, quality |-> Min(quality, 99),
     valid |-> TRUE]

\* lines 285-295: jpeg_encoder on the same rgb buffer at the requested quality
FallbackEncode(image, quality) ==
    [enc |-> "jpeg_encoder", px |-> image, quality |-> quality, valid |-> TRUE]

\* lines 289-295: let _ = enc.encode(..) failed; buf is what was written so far
FallbackFailed(image, quality) ==
    [enc |-> "jpeg_encoder", px |-> image, quality |-> quality, valid |-> FALSE]

\* lines 321-358
PngEncode(image, compressed, oxipng_ok) ==
    [enc |-> IF compressed /\ oxipng_ok THEN "oxipng" ELSE "png",
     px |-> image, quality |-> 0, valid |-> TRUE]

\* lines 364-367
WebpEncode(image, quality) ==
    [enc |-> "webp", px |-> image, quality |-> quality, valid |-> TRUE]

NoBuf == [enc |-> "none", px |-> << >>, quality |-> 0, valid |-> FALSE]

\* lines 301-311: the EXIF payload inserted as the first segment
PatchedExif(meta) ==
    IF meta.some THEN Some(patch_orientation_in_place(meta.exif).bytes) ELSE None

\* mutant: a failed re-parse fails the conversion
Container_FailOnReparse(format, b, meta, reparse_ok) ==
    IF format = "Png"
    THEN [ok |-> TRUE, kind |-> "raw", buf |-> b, icc |-> "none", exif |-> None]
    ELSE IF reparse_ok
    THEN [ok |-> TRUE, kind |-> "container", buf |-> b, icc |-> "sRGB",
          exif |-> IF format = "Jpeg" THEN PatchedExif(meta) ELSE None]
    ELSE [ok |-> FALSE, kind |-> "raw", buf |-> b, icc |-> "none", exif |-> None]

\* lines 298-316 and 369-375: what goes to the writer, the container with the
\* sRGB profile (and the EXIF segment) when the output re-parses, else the raw
\* encoder output; lines 352-357: the PNG buffer as it is
Container(format, b, meta, reparse_ok) ==
    IF format # "Png" /\ reparse_ok
    THEN [ok |-> TRUE, kind |-> "container", buf |-> b, icc |-> "sRGB",
          exif |-> IF format = "Jpeg" THEN PatchedExif(meta) ELSE None]
    ELSE [ok |-> TRUE, kind |-> "raw", buf |-> b, icc |-> "none", exif |-> None]

(***************************************************************************)
(* SpecConvert: one run of convert_image.                                  *)
(***************************************************************************)
BaseGif == <<71, 73, 70, 56, 57, 97, 64, 6, 132, 3, 0, 0, 0, 0>>

ConvertExts  == {ExtJpg, ExtJPG, ExtJpeg, ExtPng, ExtWebp, ExtHeic, ExtHEIF,
                 ExtGif}
ConvertBases == {BaseJpeg, BasePng, BaseWebp, BaseHeic, BaseGif}
ConvertSizes == {14, MAX_FILE_SIZE, MAX_FILE_SIZE + 1}

Str800 == <<56, 48, 48>>                       \* "800"
Str600 == <<54, 48, 48>>                       \* "600"
Str0   == <<48>>                               \* "0"

ConvertOptions ==
    { [format |-> f, quality |-> q.quality, png_compressed |-> q.png_compressed,
       keep_metadata |-> k, resize |-> r.resize,
       target_width |-> r.w, target_height |-> r.h] :
        f \in {"Jpeg", "Png", "WebP"},
        q \in {[quality |-> 80, png_compressed |-> TRUE],
               [quality |-> 100, png_compressed |-> FALSE]},
        k \in BOOLEAN,
        r \in {[resize |-> FALSE, w |-> Str800, h |-> Str600],
               [resize |-> TRUE, w |-> Str0, h |-> << >>],
               [resize |-> TRUE, w |-> Str800, h |-> Str600],
               [resize |-> TRUE, w |-> Str800, h |-> Str0],
               [resize |-> TRUE, w |-> << >>, h |-> Str600]} }

\* the source's EXIF segment, when it has one: orientation 6, little-endian
SourceExif ==
    MkBlob(EXIF_HEADER, SigII, <<8, 0, 0, 0>>, <<1, 0>>,
           Entry(TagOrientLE, <<6, 0>>))

NoImage == [w |-> 0, h |-> 0, alpha |-> FALSE, layout |-> "none", xform |-> 1,
            corrected |-> FALSE, resized |-> "no"]

NoContent == [ok |-> FALSE, kind |-> "none", buf |-> NoBuf, icc |-> "none",
              exif |-> None]

Absent  == [state |-> "absent", content |-> NoContent]
OldFile == [state |-> "old", content |-> NoContent]

EnvUnset ==
    [out0 |-> Absent, decode |-> "unset", orientation |-> 0, icc |-> "unset",
     resize |-> "unset", create |-> "unset", primary |-> "unset",
     fallback |-> "unset", encode |-> "unset", reparse |-> "unset",
     write |-> "unset"]

\* the file's bytes are an image of the format its extension names, so that a
\* decoder can succeed on it
Decodable(f) ==
    LET e == ToLowercase(f.ext)
    IN  \/ e \in {ExtJpg, ExtJpeg} /\ f.bytes = BaseJpeg
        \/ e = ExtPng /\ f.bytes = BasePng
        \/ e = ExtWebp /\ f.bytes = BaseWebp
        \/ e \in {ExtHeic, ExtHeif} /\ f.bytes = BaseHeic
        \/ e = ExtGif /\ f.bytes = BaseGif

\* lines 395-402: the decoded image, 1600 x 900; RGBA8 from the HEIC adapter
\* (heic.rs:60), RGB8 from a JPEG, RGBA8 from the other decoders
DecodedImage(ext) ==
    [NoImage EXCEPT !.w = 1600, !.h = 900,
                    !.alpha = (IsHeic(ext) \/ ext \notin {ExtJpg, ExtJpeg}),
                    !.layout = IF IsHeic(ext) \/ ext \notin {ExtJpg, ExtJpeg}
                               THEN "Rgba8" ELSE "Rgb8"]

InitConvert ==
    /\ pc = "validate"
    /\ src \in [ext : ConvertExts, bytes : ConvertBases, size : ConvertSizes,
                openable : BOOLEAN]
    /\ opts \in ConvertOptions
    /\ img = NoImage
    /\ metadata = None
    /\ buf = NoBuf
    /\ out \in {Absent, OldFile}
    /\ result = "none"
    /\ trace = << >>
    /\ env = [EnvUnset EXCEPT !.out0 = out]
    /\ MagicIdle
    /\ PatchIdle
    /\ ExtraIdle

Fail(reason) == result' = reason /\ pc' = "done"

\* line 381: validate_file_magic(input_path)?
Validate ==
    /\ pc = "validate"
    /\ trace' = Append(trace, "Validate")
    /\ LET v == validate_file_magic(src)
       IN  IF v = "Ok" THEN pc' = "size" /\ UNCHANGED result
           ELSE Fail(IF v = "Io" THEN "IoFailure" ELSE v)
    /\ UNCHANGED <<src, opts, img, metadata, buf, out, env,
                   magicVars, patchVars, extraVars>>

\* lines 383-387: the size ceiling
SizeCheck ==
    /\ pc = "size"
    /\ trace' = Append(trace, "SizeCheck")
    /\ IF TooLarge(FileSize(src)) THEN Fail("FileTooLarge")
       ELSE pc' = "decode" /\ UNCHANGED result
    /\ UNCHANGED <<src, opts, img, metadata, buf, out, env,
                   magicVars, patchVars, extraVars>>

\* lines 389-402: load_heic_via_libheif or image::open
Decode ==
    /\ pc = "decode"
    /\ trace' = Append(trace, "Decode")
    /\ \E ok \in BOOLEAN :
        /\ ok => Decodable(src)
        /\ env' = [env EXCEPT !.decode = IF ok THEN "ok" ELSE "err"]
        /\ IF ok
           THEN /\ img' = DecodedImage(ToLowercase(src.ext))
                /\ pc' = "orient"
                /\ UNCHANGED result
           ELSE /\ Fail("DecodeFailure")
                /\ UNCHANGED img
    /\ UNCHANGED <<src, opts, metadata, buf, out, magicVars, patchVars, extraVars>>

\* lines 404-406: apply_orientation unless the source is HEIC/HEIF
Orient ==
    /\ pc = "orient"
    /\ pc' = "meta"
    /\ IF NeedsOrient(ToLowercase(src.ext))
       THEN \E o \in {1, 6} :
               /\ img' = ApplyOrientation(img, o)
               /\ env' = [env EXCEPT !.orientation = o]
               /\ trace' = Append(trace, "Orient")
       ELSE UNCHANGED <<img, env, trace>>
    /\ UNCHANGED <<src, opts, metadata, buf, out, result,
                   magicVars, patchVars, extraVars>>

\* lines 408-414: extract_metadata for JPEG to JPEG with keep_metadata
ExtractMetadata ==
    /\ pc = "meta"
    /\ pc' = "icc"
    /\ IF WantsMetadata(opts, ToLowercase(src.ext))
       THEN /\ metadata' \in {None, Some(SourceExif)}
            /\ trace' = Append(trace, "ExtractMetadata")
       ELSE /\ metadata' = None
            /\ UNCHANGED trace
    /\ UNCHANGED <<src, opts, img, buf, out, result, env,
                   magicVars, patchVars, extraVars>>

\* lines 416-423: extract_icc_profile, then apply_color_correction
ExtractAndApplyColorProfile ==
    /\ pc = "icc"
    /\ pc' = "resize"
    /\ trace' = Append(trace, "ExtractAndApplyColorProfile")
    /\ \E icc \in {"none", "valid", "malformed"} :
        /\ img' = ApplyProfile(img, icc)
        /\ env' = [env EXCEPT !.icc = icc]
    /\ UNCHANGED <<src, opts, metadata, buf, out, result,
                   magicVars, patchVars, extraVars>>

\* lines 425-442.  resize_image_fast returns the resized image or an error;
\* with a side of u32::MAX the destination buffer of line 249 is 4 * fw * fh
\* bytes, terabytes, and the allocation can abort the process.
Resize ==
    /\ pc = "resize"
    /\ IF WillResize(opts)
       THEN LET fw == FinalSide(TargetSide(opts.target_width))
                fh == FinalSide(TargetSide(opts.target_height))
            IN  \E primary \in {"ok", "err", "abort"} :
                  /\ primary = "abort" => U32_MAX \in {fw, fh}
                  /\ env' = [env EXCEPT !.resize = primary]
                  /\ trace' = Append(trace, "Resize")
                  /\ IF primary = "abort"
                     THEN Fail("Abort") /\ UNCHANGED img
                     ELSE /\ img' = Resized(img, fw, fh, primary = "ok")
                          /\ pc' = "create"
                          /\ UNCHANGED result
       ELSE /\ pc' = "create"
            /\ UNCHANGED <<img, env, trace, result>>
    /\ UNCHANGED <<src, opts, metadata, buf, out, magicVars, patchVars, extraVars>>

\* lines 444-480: the output path, then File::create, which creates the file
\* or truncates the one that is there
Create ==
    /\ pc = "create"
    /\ trace' = Append(trace, "Create")
    /\ \E ok \in BOOLEAN :
        /\ env' = [env EXCEPT !.create = IF ok THEN "ok" ELSE "err"]
        /\ IF ok
           THEN /\ out' = [state |-> "empty", content |-> NoContent]
                /\ pc' = "encode"
                /\ UNCHANGED result
           ELSE /\ Fail("IoFailure")
                /\ UNCHANGED out
    /\ UNCHANGED <<src, opts, img, metadata, buf, magicVars, patchVars, extraVars>>

\* lines 268-296: encode_jpeg up to its buffer
EncodeJpeg ==
    /\ opts.format = "Jpeg"
    /\ \E primary \in {"ok", "panic"}, fallback \in {"ok", "err"} :
        /\ env' = [env EXCEPT !.primary = primary,
                              !.fallback = IF primary = "ok" THEN "unset"
                                           ELSE fallback]
        /\ buf' = IF primary = "ok" THEN PrimaryEncode(img, opts.quality)
                  ELSE IF fallback = "ok" THEN FallbackEncode(img, opts.quality)
                  ELSE FallbackFailed(img, opts.quality)
    /\ pc' = "write"
    /\ UNCHANGED result

\* lines 322-346: encode_png up to its buffer; lines 348-355: oxipng
EncodePng ==
    /\ opts.format = "Png"
    /\ \E enc \in {"ok", "oxipng_err", "err"} :
        /\ env' = [env EXCEPT !.encode = enc]
        /\ IF enc = "err"
           THEN Fail("EncodeFailure") /\ UNCHANGED buf
           ELSE /\ buf' = PngEncode(img, opts.png_compressed, enc = "ok")
                /\ pc' = "write"
                /\ UNCHANGED result

\* lines 364-367: encode_webp up to webp_data; Encoder::encode has no error
\* result and panics when libwebp refuses the image
EncodeWebp ==
    /\ opts.format = "WebP"
    /\ \E enc \in {"ok", "panic"} :
        /\ env' = [env EXCEPT !.encode = enc]
        /\ IF enc = "panic"
           THEN Fail("Panic") /\ UNCHANGED buf
           ELSE /\ buf' = WebpEncode(img, opts.quality)
                /\ pc' = "write"
                /\ UNCHANGED result

\* lines 482-488: the encoder of the target format
Encode ==
    /\ pc = "encode"
    /\ trace' = Append(trace, "Encode")
    /\ (EncodeJpeg \/ EncodePng \/ EncodeWebp)
    /\ UNCHANGED <<src, opts, img, metadata, out, magicVars, patchVars, extraVars>>

\* lines 298-317, 348-359, 369-376: the bytes go to the BufWriter; and line
\* 490, where the writer is dropped.  A write can succeed, fail with an error,
\* or be lost when the buffered bytes fail to flush as the writer is dropped.
Write ==
    /\ pc = "write"
    /\ trace' = Append(trace, "Write")
    /\ \E reparse_ok \in BOOLEAN, w \in {"ok", "err", "lost"} :
        /\ reparse_ok => (buf.valid /\ opts.format # "Png")
        /\ LET c == Container(opts.format, buf, metadata, reparse_ok)
           IN  /\ env' = [env EXCEPT
                            !.reparse = IF opts.format = "Png" THEN "unset"
                                        ELSE IF reparse_ok THEN "ok" ELSE "err",
                            !.write = IF c.ok THEN w ELSE "unset"]
               /\ IF ~c.ok THEN result' = "EncodeFailure" /\ UNCHANGED out
                  ELSE IF w = "ok"
                  THEN /\ out' = [state |-> "written", content |-> c]
                       /\ result' = "Ok"
                  ELSE /\ out' = [state |-> "partial", content |-> NoContent]
                       /\ result' = IF w = "err" THEN "IoFailure" ELSE "Ok"
    /\ pc' = "done"
    /\ UNCHANGED <<src, opts, img, metadata, buf, magicVars, patchVars, extraVars>>

NextConvert ==
    \/ Validate
    \/ SizeCheck
    \/ Decode
    \/ Orient
    \/ ExtractMetadata
    \/ ExtractAndApplyColorProfile
    \/ Resize
    \/ Create
    \/ Encode
    \/ Write

SpecConvert == InitConvert /\ [][NextConvert]_vars

(***************************************************************************)
(* C2                                                                      *)
(***************************************************************************)
\* the source's leading bytes carry the signature of its extension
SrcSigOk ==
    LET e == src.ext
        b == src.bytes
    IN  IF IsExt(e, ExtJpg) \/ IsExt(e, ExtJpeg) THEN SigJpeg(b)
        ELSE IF IsExt(e, ExtPng) THEN SigPng(b)
        ELSE IF IsExt(e, ExtWebp) THEN SigWebp(b)
        ELSE IF IsExt(e, ExtHeic) \/ IsExt(e, ExtHeif) THEN SigHeic(b)
        ELSE TRUE

Ran(stage) == \E i \in 1..Len(trace) : trace[i] = stage

\* C2: in convert_image the magic-byte check runs first, the size check
\* second and the decode third; a readable file whose header mismatches ends
\* with FormatMismatch whatever its size, one that passes the magic check and
\* is larger than 100 MiB ends with FileTooLarge and no decode is attempted,
\* and a file of at most 100 MiB is never rejected for its size.
C2_MagicThenSizeThenDecode ==
    /\ Len(trace) >= 1 => trace[1] = "Validate"
    /\ Len(trace) >= 2 => trace[2] = "SizeCheck"
    /\ Len(trace) >= 3 => trace[3] = "Decode"
    /\ (src.openable /\ ~SrcSigOk /\ pc # "validate") =>
           (pc = "done" /\ result = "FormatMismatch" /\ ~Ran("SizeCheck")
            /\ ~Ran("Decode"))
    /\ (src.openable /\ SrcSigOk /\ src.size > 104857600
        /\ pc \notin {"validate", "size"}) =>
           (pc = "done" /\ result = "FileTooLarge" /\ ~Ran("Decode"))
    /\ src.size <= 104857600 => result # "FileTooLarge"

\* a file with the right header and 100 MiB + 1 bytes was rejected for its
\* size
C2_Witness ==
    /\ pc = "done"
    /\ result = "FileTooLarge"
    /\ SrcSigOk
    /\ src.size = 104857601

(***************************************************************************)
(* C3                                                                      *)
(***************************************************************************)
StageOrder == <<"Validate", "Decode", "Orient", "ExtractMetadata",
                "ExtractAndApplyColorProfile", "Resize", "Encode", "Write">>

StageNo(stage) == CHOOSE i \in 1..Len(StageOrder) : StageOrder[i] = stage

IsStage(x) == \E i \in 1..Len(StageOrder) : StageOrder[i] = x

StageTrace == SelectSeq(trace, IsStage)

SrcIsHeic == IsExt(src.ext, ExtHeic) \/ IsExt(src.ext, ExtHeif)

\* C3: in every run of convert_image the stages run at most once each and in
\* the order Validate, Decode, Orient, ExtractMetadata,
\* ExtractAndApplyColorProfile, Resize, Encode, Write; Orient never runs for
\* a heic or heif source, and once the decode has succeeded and the run has
\* passed the orientation step, Orient has run exactly when the source
\* extension is neither heic nor heif.
C3_StageOrder ==
    /\ \A i, j \in 1..Len(StageTrace) :
           i < j => StageNo(StageTrace[i]) < StageNo(StageTrace[j])
    /\ SrcIsHeic => ~Ran("Orient")
    /\ (env.decode = "ok" /\ pc # "orient") => (Ran("Orient") <=> ~SrcIsHeic)

\* a HEIF source was converted through all its stages without Orient
C3_Witness ==
    /\ pc = "done"
    /\ result = "Ok"
    /\ src.ext = ExtHEIF
    /\ Ran("Resize")
    /\ ~Ran("Orient")

(***************************************************************************)
(* C4                                                                      *)
(***************************************************************************)
\* C4: a conversion that fails in a stage before Write leaves the file at the
\* output path as it was, neither created nor truncated.
C4_OnlyWriteTouchesOutput ==
    (pc = "done" /\ result # "Ok" /\ ~Ran("Write")) => out = env.out0

\* a run failed in Encode after the output file had been created
C4_Witness ==
    /\ pc = "done"
    /\ result \in {"EncodeFailure", "Panic"}
    /\ trace[Len(trace)] = "Encode"

(***************************************************************************)
(* C5                                                                      *)
(***************************************************************************)
NoWriteFailed == env.write \notin {"err", "lost"}

\* C5: when the primary JPEG encoder fails (a panic included) and the
\* fallback encoder succeeds, the failure is caught, the fallback encodes the
\* same pixels at the requested quality, and unless writing the file fails
\* the conversion returns success with that JPEG written to the output.
C5_FallbackRecovers ==
    (pc = "done" /\ env.primary = "panic" /\ env.fallback = "ok"
     /\ NoWriteFailed) =>
        /\ result = "Ok"
        /\ out.state = "written"
        /\ out.content.buf = [enc |-> "jpeg_encoder", px |-> img,
                              quality |-> opts.quality, valid |-> TRUE]

\* the primary encoder panicked at quality 100 and the run ended in success
C5_Witness ==
    /\ pc = "done"
    /\ env.primary = "panic"
    /\ env.fallback = "ok"
    /\ opts.quality = 100
    /\ result = "Ok"
    /\ out.state = "written"

(***************************************************************************)
(* C6                                                                      *)
(***************************************************************************)
\* C6: when both the primary and the fallback JPEG encoder fail,
\* convert_image returns a failure, never success.
C6_BothFailIsFailure ==
    (pc = "done" /\ env.primary = "panic" /\ env.fallback = "err") =>
        result # "Ok"

\* both encoders failed and the run ended
C6_Witness ==
    /\ pc = "done"
    /\ env.primary = "panic"
    /\ env.fallback = "err"

(***************************************************************************)
(* C7                                                                      *)
(***************************************************************************)
\* C7: for a JPEG or WebP target, when the encoded bytes do not re-parse as
\* a container, the bytes written are exactly the encoder's output, without
\* profile or EXIF, and unless writing the file fails the conversion returns
\* success.
C7_ReparseFailureWritesRaw ==
    (pc = "done" /\ opts.format \in {"Jpeg", "WebP"} /\ env.reparse = "err"
     /\ NoWriteFailed) =>
        /\ result = "Ok"
        /\ out.state = "written"
        /\ out.content.kind = "raw"
        /\ out.content.buf = buf
        /\ out.content.icc = "none"
        /\ ~out.content.exif.some

\* a valid WebP encode that did not re-parse was written raw
C7_Witness ==
    /\ pc = "done"
    /\ opts.format = "WebP"
    /\ env.reparse = "err"
    /\ buf.valid
    /\ result = "Ok"

\* a valid JPEG encode with metadata that did not re-parse was written raw
C7_WitnessJpeg ==
    /\ pc = "done"
    /\ opts.format = "Jpeg"
    /\ env.reparse = "err"
    /\ buf.valid
    /\ metadata.some
    /\ result = "Ok"

(***************************************************************************)
(* extract_metadata (convert.rs:80-120) and the container step of          *)
(* encode_jpeg (convert.rs:298-316), on the parts img_parts hands out.     *)
(*                                                                         *)
(* A source file is the container one of the three parsers accepts, with   *)
(* its parts in file order: JPEG segments [marker, contents], the EXIF     *)
(* chunk of a WebP (none or one), PNG chunks [kind, contents].             *)
(***************************************************************************)
ICC_TAG  == <<73, 67, 67, 95, 80, 82, 79, 70, 73, 76, 69, 0>>  \* "ICC_PROFILE\0"
SRGB_ICC == <<115, 82, 71, 66>>       \* stands for the bytes of srgb.icc

\* mutant: the payload of the chunk is taken as it is
WithMarker_AsIs(e) == e

\* lines 93-100 and 107-114: the marker is put in front where it is missing
WithMarker(e) == IF StartsWith(e, EXIF_HEADER) THEN e ELSE EXIF_HEADER \o e

\* lines 86-90: the loop over the JPEG segments, exif being the value so far
RECURSIVE ScanSegments(_, _)
ScanSegments(segs, exif) ==
    IF segs = << >> THEN exif
    ELSE ScanSegments(Tail(segs),
                      IF StartsWith(Head(segs).contents, EXIF_HEADER)
                      THEN Some(Head(segs).contents)
                      ELSE exif)

\* lines 104-116: the loop over the PNG chunks
RECURSIVE ScanChunks(_, _)
ScanChunks(chunks, exif) ==
    IF chunks = << >> THEN exif
    ELSE ScanChunks(Tail(chunks),
                    IF Head(chunks).kind = "eXIf"
                    THEN Some(WithMarker(Head(chunks).contents))
                    ELSE exif)

\* lines 80-120; kind tells which of fs::read and the parsers succeeded
extract_metadata(f) ==
    CASE f.kind = "jpeg" -> ScanSegments(f.parts, None)
      [] f.kind = "webp" -> IF f.parts = << >> THEN None
                            ELSE Some(WithMarker(f.parts[1].contents))
      [] f.kind = "png"  -> ScanChunks(f.parts, None)
      [] OTHER           -> None

IccSegment == [marker |-> 226, contents |-> ICC_TAG \o <<1, 1>> \o SRGB_ICC]
IsIcc(s) == s.marker = 226 /\ StartsWith(s.contents, ICC_TAG)

InsertAt(segs, at, s) ==
    SubSeq(segs, 1, at) \o <<s>> \o SubSeq(segs, at + 1, Len(segs))

\* line 300, Jpeg::set_icc_profile: earlier profile segments are dropped and
\* the profile is put in as an APP2 segment after the first at segments
SetIccProfile(segs, at) ==
    InsertAt(SelectSeq(segs, LAMBDA s : ~IsIcc(s)), Min(at, Len(segs)),
             IccSegment)

\* mutant: the EXIF segment is appended after the last segment
InsertExif_Append(segs, p) ==
    SelectSeq(segs, LAMBDA s : ~StartsWith(s.contents, EXIF_HEADER))
        \o <<[marker |-> 225, contents |-> p]>>

\* lines 305-310: segments.retain(..) and segments.insert(0, ..)
InsertExif(segs, p) ==
    <<[marker |-> 225, contents |-> p]>>
        \o SelectSeq(segs, LAMBDA s : ~StartsWith(s.contents, EXIF_HEADER))

\* lines 299-313: the segments handed to the writer
EmbedJpeg(segs, meta, icc_at) ==
    LET with_icc == SetIccProfile(segs, icc_at)
    IN  IF meta.some
        THEN InsertExif(with_icc, patch_orientation_in_place(meta.exif).bytes)
        ELSE with_icc

(***************************************************************************)
(* SpecMeta: a source container is read by extract_metadata and the blob   *)
(* is embedded in a freshly encoded JPEG.                                  *)
(***************************************************************************)
MaxParts == 2

ExifLE6 == MkBlob(EXIF_HEADER, SigII, <<8, 0, 0, 0>>, <<1, 0>>,
                  Entry(TagOrientLE, <<6, 0>>))
ExifBE8 == MkBlob(EXIF_HEADER, SigMM, <<0, 0, 0, 8>>, <<0, 1>>,
                  Entry(TagOrientBE, <<0, 8>>))
RawTiff == SubSeq(ExifLE6, 7, Len(ExifLE6))        \* ExifLE6 less its marker

SegJfif == [marker |-> 224, contents |-> <<74, 70, 73, 70, 0>>]
SegXmp  == [marker |-> 225, contents |-> <<104, 116, 116, 112>>]
SegDqt  == [marker |-> 219, contents |-> <<0>>]
SegSos  == [marker |-> 218, contents |-> <<0>>]

SourceSegments ==
    {SegJfif, SegXmp, IccSegment} \cup
    { [marker |-> 225, contents |-> b] :
        b \in {ExifLE6, ExifBE8, EXIF_HEADER, BadMarker} }

SourceChunks ==
    {[kind |-> "tEXt", contents |-> <<0>>]} \cup
    { [kind |-> "eXIf", contents |-> b] : b \in {RawTiff, ExifBE8, << >>} }

RECURSIVE SeqsUpTo(_, _)
SeqsUpTo(S, n) ==
    IF n = 0 THEN {<< >>}
    ELSE LET shorter == SeqsUpTo(S, n - 1)
         IN  shorter \cup { <<x>> \o s : x \in S, s \in shorter }

SourceFiles ==
    { [kind |-> "jpeg", parts |-> ps] : ps \in SeqsUpTo(SourceSegments, MaxParts) }
    \cup { [kind |-> "webp", parts |-> ps] :
             ps \in {<< >>} \cup
                    { <<[kind |-> "EXIF", contents |-> b]>> :
                        b \in {ExifLE6, RawTiff, << >>, EXIF_HEADER, BadMarker} } }
    \cup { [kind |-> "png", parts |-> ps] : ps \in SeqsUpTo(SourceChunks, MaxParts) }
    \cup { [kind |-> "none", parts |-> << >>] }

\* what the encoders of lines 270-296 write, as Jpeg::from_bytes splits it
EncodedJpegs == { <<SegJfif, SegDqt, SegSos>>, <<SegDqt, SegSos>> }

InitMeta ==
    /\ carry \in { [pc |-> "start", file |-> f, extracted |-> None,
                    encoded |-> e, written |-> << >>] :
                     f \in SourceFiles, e \in EncodedJpegs }
    /\ MagicIdle
    /\ PatchIdle
    /\ ConvertIdle
    /\ TurnIdle
    /\ NameIdle
    /\ MoreIdle

\* extract_metadata(input_path)
Extract ==
    /\ carry.pc = "start"
    /\ carry' = [carry EXCEPT !.pc = "extracted",
                              !.extracted = extract_metadata(carry.file)]
    /\ UNCHANGED <<magicVars, patchVars, convertVars, turn, naming, moreVars>>

\* encode_jpeg's Ok arm: the buffer re-parsed, profile and EXIF put in
Embed ==
    /\ carry.pc = "extracted"
    /\ \E icc_at \in 0..Len(carry.encoded) :
         carry' = [carry EXCEPT
                     !.pc = "written",
                     !.written = EmbedJpeg(carry.encoded, carry.extracted,
                                           icc_at)]
    /\ UNCHANGED <<magicVars, patchVars, convertVars, turn, naming, moreVars>>

NextMeta == Extract \/ Embed

SpecMeta == InitMeta /\ [][NextMeta]_vars

(***************************************************************************)
(* C13                                                                     *)
(***************************************************************************)
\* the payloads of the source that extract_metadata looks at
SourcePayloads ==
    { carry.file.parts[i].contents : i \in DOMAIN carry.file.parts }

ExifSegments(segs) ==
    { i \in DOMAIN segs : HasMarker(segs[i].contents) }

\* C13: every blob returned by extract_metadata, and every EXIF payload that
\* encode_jpeg inserts, starts with the marker "Exif\0\0"; a WebP or PNG
\* payload lacking the marker is returned with the marker in front, one
\* carrying it is returned as it is, and the patch keeps the marker.
C13_MarkerInvariant ==
    /\ (carry.pc # "start" /\ carry.extracted.some) =>
          /\ HasMarker(carry.extracted.exif)
          /\ \E b \in SourcePayloads :
               IF HasMarker(b) THEN carry.extracted.exif = b
               ELSE /\ carry.file.kind \in {"webp", "png"}
                    /\ carry.extracted.exif = EXIF_HEADER \o b
    /\ (carry.pc = "written" /\ carry.extracted.some) =>
          HasMarker(carry.written[1].contents)

\* a PNG whose eXIf chunk holds a bare TIFF block: the marker was prepended
\* and the blob was embedded
C13_Witness ==
    /\ carry.pc = "written"
    /\ carry.file.kind = "png"
    /\ carry.extracted.some
    /\ carry.extracted.exif = EXIF_HEADER \o RawTiff
    /\ carry.extracted.exif \notin SourcePayloads

\* a WebP whose EXIF chunk already carries the marker
C13_WitnessUnchanged ==
    /\ carry.pc = "written"
    /\ carry.file.kind = "webp"
    /\ carry.extracted.some
    /\ carry.extracted.exif = ExifLE6

(***************************************************************************)
(* C15                                                                     *)
(***************************************************************************)
\* the blob with its orientation set to 1, written out byte by byte
ExifLE1 == MkBlob(EXIF_HEADER, SigII, <<8, 0, 0, 0>>, <<1, 0>>,
                  Entry(TagOrientLE, <<1, 0>>))
ExifBE1 == MkBlob(EXIF_HEADER, SigMM, <<0, 0, 0, 8>>, <<0, 1>>,
                  Entry(TagOrientBE, <<0, 1>>))

ExpectedPayload(b) ==
    CASE b = ExifLE6 -> ExifLE1
      [] b = ExifBE8 -> ExifBE1
      [] b = EXIF_HEADER \o RawTiff -> ExifLE1
      [] OTHER -> b

\* C15: when encode_jpeg is given a metadata blob and the output re-parses
\* as a JPEG container, the written JPEG has exactly one segment whose
\* contents start with "Exif\0\0"; it is the first segment, its marker is
\* 0xE1, its contents are the orientation-patched copy of the extracted
\* blob, and the sRGB profile is embedded.
C15_SingleExifSegmentFirst ==
    (carry.pc = "written" /\ carry.extracted.some) =>
        /\ ExifSegments(carry.written) = {1}
        /\ carry.written[1].marker = 225
        /\ carry.written[1].contents = ExpectedPayload(carry.extracted.exif)
        /\ Len(carry.written[1].contents) = Len(carry.extracted.exif)
        /\ \E i \in DOMAIN carry.written :
             /\ carry.written[i].marker = 226
             /\ carry.written[i].contents = ICC_TAG \o <<1, 1>> \o SRGB_ICC

\* a JPEG source with two EXIF segments: the later one was extracted, its
\* orientation 8 now reads 1 in the output's first segment
C15_Witness ==
    /\ carry.pc = "written"
    /\ carry.file.kind = "jpeg"
    /\ Cardinality(ExifSegments(carry.file.parts)) = 2
    /\ carry.extracted.some
    /\ carry.extracted.exif = ExifBE8
    /\ carry.written[1].contents = ExifBE1

(***************************************************************************)
(* C14                                                                     *)
(***************************************************************************)
\* keep_metadata is set, the source extension is jpg or jpeg in any case of
\* letters, and the target is JPEG
CarryCondition ==
    /\ opts.keep_metadata
    /\ IsExt(src.ext, ExtJpg) \/ IsExt(src.ext, ExtJpeg)
    /\ opts.format = "Jpeg"

\* C14: source EXIF is carried into the output if and only if keep_metadata
\* is set, the source extension is jpg or jpeg and the target is JPEG: with
\* all three the extraction runs and a blob it finds is in the written
\* container; in every other combination the extraction is not run, the
\* encoder receives no metadata blob and the output holds no EXIF.
C14_MetadataOnlyJpegToJpeg ==
    /\ Ran("ExtractMetadata") => CarryCondition
    /\ (CarryCondition /\ Ran("ExtractAndApplyColorProfile"))
          => Ran("ExtractMetadata")
    /\ ~CarryCondition => (~metadata.some /\ ~out.content.exif.some)
    /\ (CarryCondition /\ pc = "done" /\ metadata.some
        /\ env.reparse = "ok" /\ env.write = "ok")
          => (out.content.exif.some /\ HasMarker(out.content.exif.exif))

\* photo.JPG to JPEG with keep_metadata: the blob reached the output
C14_Witness ==
    /\ pc = "done"
    /\ src.ext = ExtJPG
    /\ CarryCondition
    /\ out.content.exif.some

\* a jpg source with keep_metadata converted to PNG: no extraction
C14_WitnessPngTarget ==
    /\ pc = "done"
    /\ result = "Ok"
    /\ src.ext = ExtJpg
    /\ opts.keep_metadata
    /\ opts.format = "Png"
    /\ ~Ran("ExtractMetadata")

(***************************************************************************)
(* apply_orientation (convert.rs:193-219) on pixels.                       *)
(*                                                                         *)
(* An image is its width, its height and its pixels, px[<<x, y>>] with x   *)
(* the column and y the row, both from 0.  The imageops of the image crate *)
(* are written as they read the source image: the pixel at <<X, Y>> of the *)
(* result is the source pixel the operation puts there.                    *)
(***************************************************************************)
Coords(w, h) == (0..(w - 1)) \X (0..(h - 1))

\* DynamicImage::fliph
FlipH(im) ==
    [w |-> im.w, h |-> im.h,
     px |-> [p \in Coords(im.w, im.h) |-> im.px[<<im.w - 1 - p[1], p[2]>>]]]

\* DynamicImage::flipv
FlipV(im) ==
    [w |-> im.w, h |-> im.h,
     px |-> [p \in Coords(im.w, im.h) |-> im.px[<<p[1], im.h - 1 - p[2]>>]]]

\* DynamicImage::rotate90, clockwise: put_pixel(height - 1 - y, x, p)
Rotate90(im) ==
    [w |-> im.h, h |-> im.w,
     px |-> [p \in Coords(im.h, im.w) |-> im.px[<<p[2], im.h - 1 - p[1]>>]]]

\* DynamicImage::rotate180: put_pixel(width - 1 - x, height - 1 - y, p)
Rotate180(im) ==
    [w |-> im.w, h |-> im.h,
     px |-> [p \in Coords(im.w, im.h) |->
                im.px[<<im.w - 1 - p[1], im.h - 1 - p[2]>>]]]

\* DynamicImage::rotate270: put_pixel(y, width - 1 - x, p)
Rotate270(im) ==
    [w |-> im.h, h |-> im.w,
     px |-> [p \in Coords(im.h, im.w) |-> im.px[<<im.w - 1 - p[2], p[1]>>]]]

\* lines 200-207: what the EXIF reader answers, a value or a failure, as
\* the orientation; every failure is 1
ReadOrientation(answer) ==
    IF answer.kind = "value" THEN answer.value ELSE 1

\* mutant: the transforms of 5 and 7 exchanged
OrientTransform_Swapped(im, orientation) ==
    CASE orientation = 2 -> FlipH(im)
      [] orientation = 3 -> Rotate180(im)
      [] orientation = 4 -> FlipV(im)
      [] orientation = 5 -> FlipH(Rotate270(im))
      [] orientation = 6 -> Rotate90(im)
      [] orientation = 7 -> FlipH(Rotate90(im))
      [] orientation = 8 -> Rotate270(im)
      [] OTHER -> im

\* lines 209-218: the match
OrientTransform(im, orientation) ==
    CASE orientation = 2 -> FlipH(im)
      [] orientation = 3 -> Rotate180(im)
      [] orientation = 4 -> FlipV(im)
      [] orientation = 5 -> FlipH(Rotate90(im))
      [] orientation = 6 -> Rotate90(im)
      [] orientation = 7 -> FlipH(Rotate270(im))
      [] orientation = 8 -> Rotate270(im)
      [] OTHER -> im

\* lines 193-219
apply_orientation(im, answer) ==
    IF answer.kind = "no_file" THEN im
    ELSE OrientTransform(im, ReadOrientation(answer))

(***************************************************************************)
(* SpecOrient: apply_orientation on every image of at most MaxSide x       *)
(* MaxSide pixels, all pixels distinct, under every answer of the reader.  *)
(***************************************************************************)
MaxSide == 3
MaxOrientation == 9

OrientAnswers ==
    { [kind |-> k, value |-> 0] :
        k \in {"no_file", "no_exif", "no_field", "not_uint"} }
    \cup { [kind |-> "value", value |-> n] : n \in 0..MaxOrientation }

\* the image whose pixel at <<x, y>> is numbered x + w * y
Numbered(w, h) ==
    [w |-> w, h |-> h, px |-> [p \in Coords(w, h) |-> p[1] + w * p[2]]]

InitOrient ==
    /\ turn \in { [pc |-> "start", source |-> Numbered(w, h), answer |-> a,
                   image |-> Numbered(w, h)] :
                    w \in 1..MaxSide, h \in 1..MaxSide, a \in OrientAnswers }
    /\ MagicIdle
    /\ PatchIdle
    /\ ConvertIdle
    /\ CarryIdle
    /\ NameIdle
    /\ MoreIdle

\* img = apply_orientation(img, input_path)
ApplyOrient ==
    /\ turn.pc = "start"
    /\ turn' = [turn EXCEPT !.pc = "done",
                            !.image = apply_orientation(turn.image, turn.answer)]
    /\ UNCHANGED <<magicVars, patchVars, convertVars, carry, naming, moreVars>>

NextOrient == ApplyOrient

SpecOrient == InitOrient /\ [][NextOrient]_vars

(***************************************************************************)
(* C16                                                                     *)
(***************************************************************************)
\* the result has the given size and every source pixel <<x, y>> is found
\* at the place the rule names
LandsAt(w, h, place(_, _)) ==
    /\ turn.image.w = w
    /\ turn.image.h = h
    /\ DOMAIN turn.image.px = Coords(w, h)
    /\ \A p \in Coords(turn.source.w, turn.source.h) :
         /\ place(p[1], p[2]) \in Coords(w, h)
         /\ turn.image.px[place(p[1], p[2])] = turn.source.px[p]

\* C16: apply_orientation maps the EXIF orientation to the pixel transform:
\* 1 identity, 2 horizontal flip, 3 rotation by 180, 4 vertical flip,
\* 5 transpose (pixel (x,y) lands at (y,x)), 6 rotation by 90 clockwise,
\* 7 anti-transpose (pixel (x,y) of a W x H image lands at (H-1-y, W-1-x)),
\* 8 rotation by 270 clockwise; a missing, unreadable or out-of-range value
\* (0 or above 8) leaves the image unchanged.
C16_OrientationTransforms ==
    turn.pc = "done" =>
        LET W == turn.source.w
            H == turn.source.h
            a == IF turn.answer.kind = "value" THEN turn.answer.value ELSE 0
        IN  CASE a = 2 -> LandsAt(W, H, LAMBDA x, y : <<W - 1 - x, y>>)
              [] a = 3 -> LandsAt(W, H, LAMBDA x, y : <<W - 1 - x, H - 1 - y>>)
              [] a = 4 -> LandsAt(W, H, LAMBDA x, y : <<x, H - 1 - y>>)
              [] a = 5 -> LandsAt(H, W, LAMBDA x, y : <<y, x>>)
              [] a = 6 -> LandsAt(H, W, LAMBDA x, y : <<H - 1 - y, x>>)
              [] a = 7 -> LandsAt(H, W, LAMBDA x, y : <<H - 1 - y, W - 1 - x>>)
              [] a = 8 -> LandsAt(H, W, LAMBDA x, y : <<y, W - 1 - x>>)
              [] OTHER -> turn.image = turn.source

\* orientation 7 on an image 3 wide and 2 high: the top-left pixel is now
\* at the bottom right of a 2 x 3 image
C16_Witness ==
    /\ turn.pc = "done"
    /\ turn.answer = [kind |-> "value", value |-> 7]
    /\ turn.source.w = 3 /\ turn.source.h = 2
    /\ turn.image.w = 2 /\ turn.image.h = 3
    /\ turn.image.px[<<1, 2>>] = turn.source.px[<<0, 0>>]

\* orientation 9 on an image that is not square: nothing moved
C16_WitnessOutOfRange ==
    /\ turn.pc = "done"
    /\ turn.answer = [kind |-> "value", value |-> 9]
    /\ turn.source.w = 3 /\ turn.source.h = 1
    /\ turn.image = turn.source

(***************************************************************************)
(* C17                                                                     *)
(***************************************************************************)
\* the requested sides as numbers, 0 for a side that is not given
AskedW == TargetSide(opts.target_width)
AskedH == TargetSide(opts.target_height)

\* the image as it enters the resize step: the decoded 1600 x 900 source,
\* turned when its orientation is 6
BeforeW == IF env.orientation = 6 THEN 900 ELSE 1600
BeforeH == IF env.orientation = 6 THEN 1600 ELSE 900

\* b is a * num / den rounded to the nearest integer
IsScaled(b, a, num, den) ==
    /\ b <= 65535
    /\ 2 * (b * den - a * num) <= den
    /\ 2 * (a * num - b * den) <= den

\* C17: when resize is requested with exactly one target side given and the
\* other 0 or empty, the output has the given side at the requested value
\* and the other side scaled to preserve the source aspect ratio (800 x 450
\* for width 800 on a 1600 x 900 source), never a stretched image.
C17_OneAxisKeepsAspect ==
    (Ran("Resize") /\ opts.resize /\ (AskedW = 0 \/ AskedH = 0)) =>
        /\ result # "Abort"
        /\ IF AskedH = 0
           THEN img.w = AskedW /\ IsScaled(img.h, BeforeH, AskedW, BeforeW)
           ELSE img.h = AskedH /\ IsScaled(img.w, BeforeW, AskedH, BeforeH)

\* the outcome the claim describes is reached when resize_image_fast
\* returns an error and DynamicImage::resize takes over: 800 x 450
C17_Witness ==
    /\ Ran("Resize")
    /\ opts.target_width = Str800 /\ opts.target_height = Str0
    /\ env.orientation # 6
    /\ env.resize = "err"
    /\ img.w = 800 /\ img.h = 450

(***************************************************************************)
(* C18                                                                     *)
(***************************************************************************)
\* C18: when resize is requested with both target sides above 0, the
\* resized image has exactly the requested width and height, whether the
\* primary (Catmull-Rom) or the fallback (Lanczos) strategy produced it.
C18_BothAxesExact ==
    (Ran("Resize") /\ opts.resize /\ AskedW > 0 /\ AskedH > 0) =>
        (img.w = AskedW /\ img.h = AskedH)

\* the primary strategy gave exactly 800 x 600
C18_Witness ==
    /\ Ran("Resize")
    /\ AskedW = 800 /\ AskedH = 600
    /\ env.resize = "ok"
    /\ img.w = 800 /\ img.h = 600
    /\ img.resized = "CatmullRom"

(***************************************************************************)
(* get_target_filename (convert.rs:53-77), the filename of convert_image   *)
(* (convert.rs:456-478) and get_smart_suffix (convert.rs:493-500).         *)
(*                                                                         *)
(* Strings are sequences of character codes.                               *)
(***************************************************************************)
\* the place of the last '.' in a file name, 0 without one
LastDot(name) ==
    LET dots == { i \in 1..Len(name) : name[i] = 46 }
    IN  IF dots = {} THEN 0 ELSE CHOOSE i \in dots : \A j \in dots : j <= i

\* Path::file_stem: the name up to its last '.', the whole name when it has
\* no '.' or only a leading one
FileStem(name) ==
    IF LastDot(name) <= 1 THEN name ELSE SubSeq(name, 1, LastDot(name) - 1)

\* Path::extension
Extension(name) ==
    IF LastDot(name) <= 1 THEN << >>
    ELSE SubSeq(name, LastDot(name) + 1, Len(name))

\* str::replace for a pattern that is not empty: the matches are taken from
\* the left and do not overlap
RECURSIVE Replace(_, _, _)
Replace(s, from, to) ==
    IF Len(s) < Len(from) THEN s
    ELSE IF SubSeq(s, 1, Len(from)) = from
    THEN to \o Replace(SubSeq(s, Len(from) + 1, Len(s)), from, to)
    ELSE <<Head(s)>> \o Replace(Tail(s), from, to)

\* format!("{}", n) for an unsigned integer
RECURSIVE ToDecimal(_)
ToDecimal(n) ==
    IF n < 10 THEN <<48 + n>> ELSE ToDecimal(n \div 10) \o <<48 + (n % 10)>>

\* lines 493-500
get_smart_suffix(width, height, quality, format) ==
    LET short_side == Min(width, height)
    IN  IF format = "Png"
        THEN <<45>> \o ToDecimal(short_side) \o <<112>>
        ELSE <<45>> \o ToDecimal(short_side) \o <<112, 45>>
                 \o ToDecimal(quality) \o <<113>>

\* lines 70-74 and 473-477
TargetExt(format) ==
    CASE format = "Jpeg" -> ExtJpg
      [] format = "Png"  -> ExtPng
      [] format = "WebP" -> ExtWebp

\* lines 54-62 and 456-463: the stem after find and replace
ReplacedStem(name, o) ==
    IF o.find_pattern # << >>
    THEN Replace(FileStem(name), o.find_pattern, o.replace_with)
    ELSE FileStem(name)

\* image::image_dimensions: the size in the file's header; the image crate
\* knows no HEIC/HEIF and answers with an error for such a file
image_dimensions(f) ==
    IF IsHeic(ToLowercase(Extension(f.name)))
    THEN [ok |-> FALSE, w |-> 0, h |-> 0]
    ELSE [ok |-> TRUE, w |-> f.w, h |-> f.h]

\* lines 53-77
get_target_filename(f, o) ==
    LET d == image_dimensions(f)
        stem == ReplacedStem(f.name, o)
        suffixed == IF o.auto_suffix /\ d.ok
                    THEN stem \o get_smart_suffix(d.w, d.h, o.quality, o.format)
                    ELSE stem
    IN  o.prefix \o suffixed \o <<46>> \o TargetExt(o.format)

\* lines 395-442: the image convert_image holds after the resize step, for a
\* file that decodes; primary_ok is the answer of resize_image_fast
Processed(f, o, primary_ok) ==
    LET ext == ToLowercase(Extension(f.name))
        decoded == [NoImage EXCEPT !.w = f.w, !.h = f.h]
        turned == IF NeedsOrient(ext)
                  THEN ApplyOrientation(decoded, f.orientation)
                  ELSE decoded
    IN  IF WillResize(o)
        THEN Resized(turned, FinalSide(TargetSide(o.target_width)),
                     FinalSide(TargetSide(o.target_height)), primary_ok)
        ELSE turned

\* lines 456-478: the file name convert_image joins to the output directory
WrittenFilename(f, o, processed) ==
    LET stem == ReplacedStem(f.name, o)
        suffixed == IF o.auto_suffix
                    THEN stem \o get_smart_suffix(processed.w, processed.h,
                                                  o.quality, o.format)
                    ELSE stem
    IN  o.prefix \o suffixed \o <<46>> \o TargetExt(o.format)

(***************************************************************************)
(* SpecName: the caller derives the name with get_target_filename and      *)
(* convert_image derives the name it writes, for the same file and         *)
(* options.                                                                *)
(***************************************************************************)
NameFiles ==
    { [name |-> n, w |-> d[1], h |-> d[2], orientation |-> r] :
        n \in { <<112, 104, 111, 116, 111, 46, 74, 80, 71>>,       \* photo.JPG
                <<112, 104, 111, 116, 111, 112, 104, 111, 116, 111,
                  46, 112, 110, 103>>,                        \* photophoto.png
                <<112, 105, 99, 46, 104, 101, 105, 99>>,            \* pic.heic
                <<97, 97, 97, 46, 119, 101, 98, 112>> },            \* aaa.webp
        d \in {<<1920, 1080>>, <<1080, 1920>>},
        r \in {1, 6} }

NameOptions ==
    { [format |-> f, quality |-> q, prefix |-> p, find_pattern |-> fp,
       replace_with |-> rw, auto_suffix |-> a, resize |-> rs,
       target_width |-> Str800, target_height |-> Str600] :
        f \in {"Jpeg", "Png", "WebP"},
        q \in {5, 80, 100},
        p \in {<< >>, <<111, 117, 116, 95>>,                        \* out_
               <<112, 104, 111, 116, 111, 95>>},                    \* photo_
        fp \in {<< >>, <<112, 104, 111, 116, 111>>, <<97, 97>>},    \* photo, aa
        rw \in {<< >>, <<112, 105, 99>>},                           \* pic
        a \in BOOLEAN,
        rs \in BOOLEAN }

InitName ==
    /\ naming \in { [file |-> f, opts |-> o, named |-> FALSE, target |-> << >>,
                     converted |-> FALSE, written |-> << >>] :
                      f \in NameFiles, o \in NameOptions }
    /\ MagicIdle
    /\ PatchIdle
    /\ ConvertIdle
    /\ CarryIdle
    /\ TurnIdle
    /\ MoreIdle

\* the caller's get_target_filename(&file_item.path, &options)
GetTargetFilename ==
    /\ ~naming.named
    /\ naming' = [naming EXCEPT
                    !.named = TRUE,
                    !.target = get_target_filename(naming.file, naming.opts)]
    /\ UNCHANGED <<magicVars, patchVars, convertVars, carry, turn, moreVars>>

\* convert_image up to line 478, for a file that decodes
ConvertFilename ==
    /\ ~naming.converted
    /\ \E primary_ok \in BOOLEAN :
         naming' = [naming EXCEPT
                      !.converted = TRUE,
                      !.written =
                          WrittenFilename(naming.file, naming.opts,
                                          Processed(naming.file, naming.opts,
                                                    primary_ok))]
    /\ UNCHANGED <<magicVars, patchVars, convertVars, carry, turn, moreVars>>

NextName == GetTargetFilename \/ ConvertFilename

SpecName == InitName /\ [][NextName]_vars

(***************************************************************************)
(* C19                                                                     *)
(***************************************************************************)
StrPhoto == <<112, 104, 111, 116, 111>>
StrAa    == <<97, 97>>

\* the stem with every occurrence of the find pattern replaced, written
\* out for the stems and patterns of NameFiles and NameOptions
ExpectedStem ==
    LET n  == naming.file.name
        fp == naming.opts.find_pattern
        rw == naming.opts.replace_with
    IN  CASE n[1] = 112 /\ Len(n) = 9 ->               \* photo.JPG
               IF fp = StrPhoto THEN rw ELSE StrPhoto
          [] n[1] = 112 /\ Len(n) = 14 ->              \* photophoto.png
               IF fp = StrPhoto THEN rw \o rw ELSE StrPhoto \o StrPhoto
          [] n[1] = 112 /\ Len(n) = 8 ->               \* pic.heic
               <<112, 105, 99>>
          [] OTHER ->                                  \* aaa.webp
               IF fp = StrAa THEN rw \o <<97>> ELSE <<97, 97, 97>>

\* the quality in decimal
ExpectedQuality ==
    CASE naming.opts.quality = 5 -> <<53>>
      [] naming.opts.quality = 80 -> <<56, 48>>
      [] OTHER -> <<49, 48, 48>>

\* "-1080p" or "-1080p-<quality>q": every file of NameFiles is 1080 pixels
\* on its short side
ExpectedSuffix ==
    IF ~naming.opts.auto_suffix THEN << >>
    ELSE IF naming.opts.format = "Png" THEN <<45, 49, 48, 56, 48, 112>>
    ELSE <<45, 49, 48, 56, 48, 112, 45>> \o ExpectedQuality \o <<113>>

ExpectedExt ==
    CASE naming.opts.format = "Jpeg" -> <<106, 112, 103>>
      [] naming.opts.format = "Png"  -> <<112, 110, 103>>
      [] OTHER -> <<119, 101, 98, 112>>

\* C19: the target filename is prefix + stem' + suffix + "." + ext, stem'
\* being the source stem with every occurrence of the find pattern replaced
\* (unchanged for an empty pattern, the prefix never subject to it), suffix
\* empty without auto-suffix, "-<short side>p" for PNG and
\* "-<short side>p-<quality>q" for JPEG and WebP, ext jpg, png or webp.
C19_TargetFilename ==
    naming.named =>
        naming.target = naming.opts.prefix \o ExpectedStem \o ExpectedSuffix
                            \o <<46>> \o ExpectedExt

\* photo.JPG with prefix out_, find photo, replace pic, PNG target, no
\* auto-suffix: out_pic.png
C19_Witness ==
    /\ naming.named
    /\ naming.file.name = <<112, 104, 111, 116, 111, 46, 74, 80, 71>>
    /\ naming.opts.prefix = <<111, 117, 116, 95>>
    /\ naming.opts.find_pattern = StrPhoto
    /\ ~naming.opts.auto_suffix
    /\ naming.opts.format = "Png"
    /\ naming.target = <<111, 117, 116, 95, 112, 105, 99, 46, 112, 110, 103>>

(***************************************************************************)
(* C20                                                                     *)
(***************************************************************************)
\* C20: get_target_filename returns exactly the filename that convert_image
\* writes for the same source and options whenever resize is disabled, for
\* every supported source format, auto-suffix on or off; the two can differ
\* only when resize is enabled together with auto-suffix.
C20_StandaloneMatchesWritten ==
    (naming.named /\ naming.converted /\ naming.target # naming.written) =>
        (naming.opts.resize /\ naming.opts.auto_suffix)

\* a turned JPEG with auto-suffix and no resize: both derivations give the
\* same name, with the short side 1080
C20_Witness ==
    /\ naming.named /\ naming.converted
    /\ naming.file.name = <<112, 104, 111, 116, 111, 46, 74, 80, 71>>
    /\ naming.file.orientation = 6
    /\ naming.opts.auto_suffix
    /\ ~naming.opts.resize
    /\ naming.target = naming.written

(***************************************************************************)
(* C23                                                                     *)
(***************************************************************************)
\* every stage after the colour profile step answered without a failure
AfterProfileOk ==
    /\ env.resize # "abort"
    /\ env.create = "ok"
    /\ env.encode \notin {"err", "panic"}
    /\ NoWriteFailed

\* C23: when the source carries an ICC profile that lcms2 does not accept,
\* the profile step does not fail convert_image: the run goes on to the
\* resize, the encoder and the write with pixels that were not transformed,
\* and unless a later stage fails it returns success with those pixels
\* written.
C23_MalformedProfileAbsorbed ==
    env.icc = "malformed" =>
        /\ ~img.corrected
        /\ pc = "resize" => result = "none"
        /\ (pc = "done" /\ AfterProfileOk) =>
              /\ result = "Ok"
              /\ WillResize(opts) => Ran("Resize")
              /\ Ran("Encode")
              /\ Ran("Write")
              /\ out.state = "written"
              /\ ~out.content.buf.px.corrected

\* a run with a malformed profile and a resize ended in success
C23_Witness ==
    /\ pc = "done"
    /\ env.icc = "malformed"
    /\ WillResize(opts)
    /\ Ran("Resize")
    /\ result = "Ok"
    /\ out.state = "written"
    /\ ~out.content.buf.px.corrected

(***************************************************************************)
(* SpecPar: two runs of convert_image (convert.rs:380-490) over one file   *)
(* system, as process_conversion (main.rs:219-240) spawns them: one task   *)
(* per file, each with a clone of the same options.  A run is followed at  *)
(* the level of its file accesses.                                         *)
(***************************************************************************)
NoPath == [dir |-> "none", name |-> << >>]

PathOf(f) == [dir |-> f.dir, name |-> f.name]

\* lines 444-454: the custom folder when it is chosen and exists, else the
\* folder of the source
OutParent(f, o) ==
    IF o.use_custom_output /\ o.custom_output_path.some
       /\ o.custom_output_path.exists
    THEN o.custom_output_path.dir
    ELSE f.dir

\* line 478
OutputPath(f, o) ==
    [dir |-> OutParent(f, o),
     name |-> WrittenFilename(f, o, Processed(f, o, TRUE))]

\* mutant: the output file is created before the source is decoded
Stages_CreateFirst(o, ext) ==
    <<"validate", "size", "create", "decode">>
    \o (IF NeedsOrient(ext) THEN <<"orient">> ELSE << >>)
    \o (IF WantsMetadata(o, ext) THEN <<"meta">> ELSE << >>)
    \o <<"icc", "write">>

\* lines 380-490: the file accesses of convert_image in program order;
\* validate_file_magic (381), fs::metadata (383), image::open (399),
\* apply_orientation (405), extract_metadata (411), extract_icc_profile
\* (416), File::create (480), the encoder's writes (482-488)
Stages(o, ext) ==
    <<"validate", "size", "decode">>
    \o (IF NeedsOrient(ext) THEN <<"orient">> ELSE << >>)
    \o (IF WantsMetadata(o, ext) THEN <<"meta">> ELSE << >>)
    \o <<"icc", "create", "write">>

ReadStages == {"validate", "size", "decode", "orient", "meta", "icc"}

\* what a read of the source makes of the file's content: the header check
\* and the decoder fail on a truncated file and on an image of another
\* format than the extension names; the size is always there; the
\* orientation, EXIF and profile readers absorb their errors
ReadOk(stage, c, o, ext) ==
    IF stage \in {"validate", "decode"}
    THEN \/ c.state = "orig"
         \/ c.state = "written" /\ TargetExt(o.format) = ext
    ELSE TRUE

ParSources ==
    { [dir |-> d[1], name |-> d[2], w |-> 1920, h |-> 1080, orientation |-> 1] :
        d \in { <<"a", <<112, 104, 111, 116, 111, 46, 106, 112, 103>> >>,  \* a/photo.jpg
                <<"a", <<112, 104, 111, 116, 111, 46, 112, 110, 103>> >>,  \* a/photo.png
                <<"a", <<112, 105, 99, 46, 106, 112, 103>> >>,             \* a/pic.jpg
                <<"b", <<112, 104, 111, 116, 111, 46, 106, 112, 103>> >> } }  \* b/photo.jpg

ParFolders ==
    { [some |-> FALSE, dir |-> "none", exists |-> FALSE],
      [some |-> TRUE, dir |-> "b", exists |-> TRUE],
      [some |-> TRUE, dir |-> "gone", exists |-> FALSE] }

ParOptions ==
    { [format |-> f, quality |-> 80, prefix |-> p, find_pattern |-> << >>,
       replace_with |-> << >>, auto_suffix |-> FALSE, resize |-> FALSE,
       target_width |-> Str0, target_height |-> Str0, keep_metadata |-> k,
       use_custom_output |-> u, custom_output_path |-> c] :
        f \in {"Jpeg", "Png"},
        p \in {<< >>, <<111, 117, 116, 95>>},                       \* out_
        k \in BOOLEAN,
        u \in BOOLEAN,
        c \in ParFolders }

ParPaths ==
    { PathOf(f) : f \in ParSources }
    \cup { OutputPath(f, o) : f \in ParSources, o \in ParOptions }

NewRun(f) ==
    [source |-> f, at |-> 1, seen |-> << >>, target |-> NoPath,
     result |-> "none"]

InitPar ==
    /\ \E f1 \in ParSources, f2 \in ParSources, o \in ParOptions :
        /\ PathOf(f1) # PathOf(f2)
        /\ par = [opts |-> o,
                  runs |-> <<NewRun(f1), NewRun(f2)>>,
                  fs |-> [p \in ParPaths |->
                            IF p \in {PathOf(f1), PathOf(f2)}
                            THEN [state |-> "orig", writers |-> {}]
                            ELSE [state |-> "absent", writers |-> {}]]]
    /\ AppIdle
    /\ StoreIdle
    /\ MagicIdle
    /\ PatchIdle
    /\ ConvertIdle
    /\ CarryIdle
    /\ TurnIdle
    /\ NameIdle

RunExt(r) == ToLowercase(Extension(r.source.name))

RunStage(r) ==
    IF r.result # "none" THEN "done"
    ELSE Stages(par.opts, RunExt(r))[r.at]

\* lines 381-423: one read of the source by run i
ParRead(i) ==
    LET r == par.runs[i]
        st == RunStage(r)
        c == par.fs[PathOf(r.source)]
    IN  /\ st \in ReadStages
        /\ par' = [par EXCEPT
                     !.runs[i].seen = Append(r.seen, [stage |-> st,
                                                      state |-> c.state]),
                     !.runs[i].at = r.at + 1,
                     !.runs[i].result =
                         IF ReadOk(st, c, par.opts, RunExt(r)) THEN "none"
                         ELSE "Err"]
        /\ UNCHANGED <<magicVars, patchVars, convertVars, carry, turn, naming,
                       app, store>>

\* lines 444-480: the output path, then File::create, which creates the file
\* or truncates the one that is there
ParCreate(i) ==
    LET r == par.runs[i]
        t == OutputPath(r.source, par.opts)
    IN  /\ RunStage(r) = "create"
        /\ \E ok \in BOOLEAN :
            par' = IF ok
                   THEN [par EXCEPT
                           !.runs[i].target = t,
                           !.runs[i].at = r.at + 1,
                           !.fs[t] = [state |-> "empty",
                                      writers |-> par.fs[t].writers \cup {i}]]
                   ELSE [par EXCEPT !.runs[i].result = "Err"]
        /\ UNCHANGED <<magicVars, patchVars, convertVars, carry, turn, naming,
                       app, store>>

\* lines 482-490: the encoder writes through the handle File::create gave
ParWrite(i) ==
    LET r == par.runs[i]
    IN  /\ RunStage(r) = "write"
        /\ par' = [par EXCEPT
                     !.runs[i].result = "Ok",
                     !.fs[r.target] = [state |-> "written",
                                       writers |-> par.fs[r.target].writers]]
        /\ UNCHANGED <<magicVars, patchVars, convertVars, carry, turn, naming,
                       app, store>>

NextPar == \E i \in 1..2 : ParRead(i) \/ ParCreate(i) \/ ParWrite(i)

SpecPar == InitPar /\ [][NextPar]_vars

(***************************************************************************)
(* C21                                                                     *)
(***************************************************************************)
RunSources == { PathOf(par.runs[i].source) : i \in 1..2 }

\* C21: two runs of convert_image on two distinct source files with the same
\* options have output paths that differ from each other and from both
\* source paths, so that no file is written by both runs.
C21_DistinctOutputs ==
    /\ \A i \in 1..2 :
          par.runs[i].target # NoPath =>
              /\ par.runs[i].target \notin RunSources
              /\ par.runs[i].target # par.runs[3 - i].target
    /\ \A p \in ParPaths : Cardinality(par.fs[p].writers) <= 1

\* photo.jpg and photo.png of one folder, target JPEG: both runs created and
\* wrote a/photo.jpg, the source of the first
C21_Witness ==
    /\ par.runs[1].result = "Ok"
    /\ par.runs[2].result = "Ok"
    /\ par.runs[1].target = par.runs[2].target
    /\ par.runs[1].target = PathOf(par.runs[1].source)
    /\ par.fs[par.runs[1].target].writers = {1, 2}

(***************************************************************************)
(* C28                                                                     *)
(***************************************************************************)
\* the stages of the run that read the source
RunReads(r) ==
    { k \in 1..Len(Stages(par.opts, RunExt(r))) :
        Stages(par.opts, RunExt(r))[k] \in ReadStages }

\* no other run creates its output at the source of run i
SourceIsOwn(i) ==
    OutputPath(par.runs[3 - i].source, par.opts) # PathOf(par.runs[i].source)

\* C28: in a run of convert_image every read of the source (magic check,
\* size, decode, orientation, EXIF, ICC profile) is complete when the run
\* creates its output file, so a run whose output path is its source path
\* reads the original bytes in every one of them.
C28_ReadsBeforeCreate ==
    \A i \in 1..2 :
        LET r == par.runs[i]
        IN  /\ r.target # NoPath =>
                  { r.seen[k].stage : k \in 1..Len(r.seen) }
                      = { Stages(par.opts, RunExt(r))[k] : k \in RunReads(r) }
            /\ SourceIsOwn(i) =>
                  \A k \in 1..Len(r.seen) : r.seen[k].state = "orig"

\* a JPEG to JPEG run with metadata wrote its own source after reading it
\* five times and more
C28_Witness ==
    \E i \in 1..2 :
        LET r == par.runs[i]
        IN  /\ r.result = "Ok"
            /\ r.target = PathOf(r.source)
            /\ SourceIsOwn(i)
            /\ Len(r.seen) = 6
            /\ par.fs[r.target] = [state |-> "written", writers |-> {i}]

(***************************************************************************)
(* The application state (state.rs:113-133) under the message handlers of  *)
(* handlers.rs and main.rs.  Indices are usize values counted from 0;      *)
(* Option<usize> is the index or NoIndex; a FileItem is its id, path and   *)
(* status; the uuid of FileItem::new is the next unused number.            *)
(*   SpecList   the list handlers: additions, selection, drag and drop,    *)
(*              deletion                                                   *)
(*   SpecBatch  a batch: ConvertClicked, OverwriteDecision, the conversion *)
(*              tasks and their FileConverted, ConversionFinished, with    *)
(*              additions, selection and deletion in between               *)
(***************************************************************************)
MaxFiles     == 3       \* FileItems created in a run of the application
MaxBatchSize == 2       \* options.max_batch_size
MaxBatches   == 2       \* ConvertClicked messages that are not declined

NoIndex == -1

AppPaths == {1, 2}

NoLast == [op |-> "none", files |-> << >>, selected |-> {}, from |-> NoIndex,
           to |-> NoIndex, id |-> 0, res |-> "none"]

\* Vec::remove(i)
VecRemove(v, i) == SubSeq(v, 1, i) \o SubSeq(v, i + 2, Len(v))

\* Vec::insert(i, x)
VecInsert(v, i, x) == SubSeq(v, 1, i) \o <<x>> \o SubSeq(v, i + 1, Len(v))

\* state.rs:47-53
NewFileItem(id, path) == [id |-> id, path |-> path, status |-> "Pending"]

\* handlers.rs:20-24: push every path no file of the list has
RECURSIVE PushNew(_, _, _)
PushNew(files, paths, id) ==
    IF paths = << >> THEN files
    ELSE IF \E k \in 1..Len(files) : files[k].path = Head(paths)
    THEN PushNew(files, Tail(paths), id)
    ELSE PushNew(Append(files, NewFileItem(id, Head(paths))), Tail(paths),
                 id + 1)

\* mutant: the two items change places
Reorder_Swap(files, from, to) ==
    [k \in 1..Len(files) |->
        IF k = from + 1 THEN files[to + 1]
        ELSE IF k = to + 1 THEN files[from + 1]
        ELSE files[k]]

\* handlers.rs:55-56
Reorder(files, from, to) ==
    VecInsert(VecRemove(files, from), to, files[from + 1])

\* handlers.rs:51-54
CanReorder(from, to, len) ==
    /\ from # NoIndex
    /\ to # NoIndex
    /\ from # to
    /\ from < len
    /\ to < len

SetMax(S) == CHOOSE m \in S : \A x \in S : x <= m
SetMin(S) == CHOOSE m \in S : \A x \in S : m <= x

\* mutant: the indices are taken in ascending order
RECURSIVE DeleteIndices_Ascending(_, _)
DeleteIndices_Ascending(files, indices) ==
    IF indices = {} THEN files
    ELSE LET m == SetMin(indices)
         IN  DeleteIndices_Ascending(
                 IF m < Len(files) THEN VecRemove(files, m) ELSE files,
                 indices \ {m})

\* handlers.rs:86-92: the indices in descending order, each removed when it
\* is below the length
RECURSIVE DeleteIndices(_, _)
DeleteIndices(files, indices) ==
    IF indices = {} THEN files
    ELSE LET m == SetMax(indices)
         IN  DeleteIndices(
                 IF m < Len(files) THEN VecRemove(files, m) ELSE files,
                 indices \ {m})

AnyProcessing(files) ==
    \E k \in 1..Len(files) : files[k].status = "Processing"

\* main.rs:207-210
AllProcessing(files) ==
    [k \in 1..Len(files) |-> [files[k] EXCEPT !.status = "Processing"]]

\* handlers.rs:236-241: the first file with the id gets the outcome
SetOutcome(files, id, res) ==
    [k \in 1..Len(files) |->
        IF files[k].id = id /\ \A j \in 1..(k - 1) : files[j].id # id
        THEN [files[k] EXCEPT !.status = IF res = "Ok" THEN "Done" ELSE "Error"]
        ELSE files[k]]

\* main.rs:213-222: the ids of the files a task is spawned for
Spawned(files, max_batch_size) ==
    { files[k].id : k \in 1..Min(max_batch_size, Len(files)) }

\* state.rs:122-133 with options.max_batch_size from load_settings
InitApp ==
    /\ app = [files |-> << >>, selected_indices |-> {},
              dragging_index |-> NoIndex, hovered_index |-> NoIndex,
              is_processing |-> FALSE, max_batch_size |-> MaxBatchSize,
              next_id |-> 1, pending |-> 0, batches |-> 0,
              tasks |-> [i \in 1..MaxFiles |-> 0],
              finishing |-> 0, produced |-> 0, last |-> NoLast]
    /\ ParIdle
    /\ StoreIdle
    /\ MagicIdle
    /\ PatchIdle
    /\ ConvertIdle
    /\ CarryIdle
    /\ TurnIdle
    /\ NameIdle

AppRest == <<magicVars, patchVars, convertVars, carry, turn, naming, par,
             store>>

\* handlers.rs:16-26, the paths the file dialog returned
FilesSelected ==
    /\ \E paths \in (AppPaths \X AppPaths) \cup { <<p>> : p \in AppPaths } :
        LET files == PushNew(app.files, paths, app.next_id)
            made == Len(files) - Len(app.files)
        IN  /\ app.next_id + made <= MaxFiles + 1
            /\ app' = [app EXCEPT !.files = files,
                                  !.next_id = app.next_id + made,
                                  !.last = NoLast]
    /\ UNCHANGED AppRest

\* handlers.rs:29-39 with the vec![path] of main.rs:140-142
ExternalFilesDropped ==
    /\ \E path \in AppPaths, is_file \in BOOLEAN :
        IF is_file
        THEN /\ app.next_id <= MaxFiles
             /\ app' = [app EXCEPT
                          !.files = Append(app.files,
                                           NewFileItem(app.next_id, path)),
                          !.next_id = app.next_id + 1,
                          !.last = NoLast]
        ELSE app' = [app EXCEPT !.last = NoLast]
    /\ UNCHANGED AppRest

\* handlers.rs:42-45; view.rs:564 gives the index of a row of the list
ItemDragStarted ==
    /\ \E index \in 0..(Len(app.files) - 1) :
        app' = [app EXCEPT !.dragging_index = index, !.last = NoLast]
    /\ UNCHANGED AppRest

\* handlers.rs:67-72; view.rs:586 gives Some(index) of a row of the list
ItemHovered ==
    /\ \E index \in 0..(Len(app.files) - 1) :
        app' = [app EXCEPT
                  !.hovered_index = IF app.dragging_index # NoIndex
                                    THEN index ELSE app.hovered_index,
                  !.last = NoLast]
    /\ UNCHANGED AppRest

\* handlers.rs:48-64; main.rs:143-145 sends it on every release of the left
\* mouse button
ItemDropped ==
    /\ LET from == app.dragging_index
           to == app.hovered_index
           moves == CanReorder(from, to, Len(app.files))
       IN  app' = [app EXCEPT
                     !.files = IF moves THEN Reorder(app.files, from, to)
                               ELSE app.files,
                     !.selected_indices = IF moves THEN {}
                                          ELSE app.selected_indices,
                     !.dragging_index = NoIndex,
                     !.hovered_index = NoIndex,
                     !.last = [NoLast EXCEPT !.op = "ItemDropped",
                                             !.files = app.files,
                                             !.from = from, !.to = to]]
    /\ UNCHANGED AppRest

\* handlers.rs:75-82; view.rs:585 gives the index of a row of the list
ToggleSelection ==
    /\ \E index \in 0..(Len(app.files) - 1) :
        app' = [app EXCEPT
                  !.selected_indices =
                      IF index \in app.selected_indices
                      THEN app.selected_indices \ {index}
                      ELSE app.selected_indices \cup {index},
                  !.last = NoLast]
    /\ UNCHANGED AppRest

\* handlers.rs:85-95; the Delete button and the Delete key (main.rs:146-149)
DeleteSelected ==
    /\ app' = [app EXCEPT
                 !.files = DeleteIndices(app.files, app.selected_indices),
                 !.selected_indices = {},
                 !.last = [NoLast EXCEPT !.op = "DeleteSelected",
                                         !.files = app.files,
                                         !.selected = app.selected_indices]]
    /\ UNCHANGED AppRest

\* handlers.rs:98-102
ClearList ==
    /\ app' = [app EXCEPT !.files = << >>, !.selected_indices = {},
                          !.last = NoLast]
    /\ UNCHANGED AppRest

NextList ==
    \/ FilesSelected
    \/ ExternalFilesDropped
    \/ ItemDragStarted
    \/ ItemHovered
    \/ ItemDropped
    \/ ToggleSelection
    \/ DeleteSelected
    \/ ClearList

SpecList == InitApp /\ [][NextList]_vars

(***************************************************************************)
(* C29                                                                     *)
(***************************************************************************)
\* the files at the places that are not selected, in their order
Unselected(files, selected) ==
    LET kept == { k \in 1..Len(files) : (k - 1) \notin selected }
        place(j) == CHOOSE k \in kept : Cardinality({ x \in kept : x <= k }) = j
    IN  [j \in 1..Cardinality(kept) |-> files[place(j)]]

\* C29: through FilesSelected, ExternalFilesDropped, ToggleSelection of a
\* row of the list, ItemDropped, DeleteSelected and ClearList every selected
\* index stays below the length of the list, and DeleteSelected removes
\* exactly the files at the selected indices and keeps the others in order.
C29_SelectionInRange ==
    /\ \A i \in app.selected_indices : i < Len(app.files)
    /\ app.last.op = "DeleteSelected" =>
          /\ app.files = Unselected(app.last.files, app.last.selected)
          /\ app.selected_indices = {}

\* the first two of three files were selected and deleted
C29_Witness ==
    /\ app.last.op = "DeleteSelected"
    /\ Len(app.last.files) = 3
    /\ app.last.selected = {0, 1}
    /\ app.files = <<app.last.files[3]>>

\* the last of three files is selected
C29_WitnessLast ==
    /\ Len(app.files) = 3
    /\ 2 \in app.selected_indices

(***************************************************************************)
(* C30                                                                     *)
(***************************************************************************)
\* C30: handle_item_dropped never indexes outside the list, also with a
\* dragging or hovered index left from a longer list; when it reorders, the
\* list is a permutation of the old one with the dragged item at the hovered
\* index and the other items in their order; it always resets both indices,
\* so hovered_index is set only while dragging_index is set.
C30_ItemDropped ==
    /\ app.hovered_index # NoIndex => app.dragging_index # NoIndex
    /\ app.last.op = "ItemDropped" =>
          LET old == app.last.files
              from == app.last.from
              to == app.last.to
          IN  /\ app.dragging_index = NoIndex
              /\ app.hovered_index = NoIndex
              /\ Len(app.files) = Len(old)
              /\ IF from # NoIndex /\ to # NoIndex /\ from # to
                    /\ from < Len(old) /\ to < Len(old)
                 THEN /\ app.files[to + 1] = old[from + 1]
                      /\ VecRemove(app.files, to) = VecRemove(old, from)
                      /\ app.selected_indices = {}
                 ELSE app.files = old

\* the first of three files was dropped on the third
C30_Witness ==
    /\ app.last.op = "ItemDropped"
    /\ Len(app.last.files) = 3
    /\ app.last.from = 0
    /\ app.last.to = 2
    /\ app.files[3] = app.last.files[1]

\* a drop with a dragging index the list no longer has
C30_WitnessStale ==
    /\ app.last.op = "ItemDropped"
    /\ app.last.from >= Len(app.last.files)
    /\ app.last.to # NoIndex
    /\ app.last.to < Len(app.last.files)
    /\ app.files = app.last.files

(***************************************************************************)
(* SpecBatch: the batch conversion of main.rs:161-241 and                  *)
(* handlers.rs:231-272.  app.pending counts the OverwriteDecision messages *)
(* in flight, app.tasks the conversion tasks in flight for each file id,   *)
(* app.finishing the ConversionFinished messages in flight; app.batches    *)
(* counts the batches confirmed and app.produced the ConversionFinished    *)
(* messages produced.                                                      *)
(***************************************************************************)
\* main.rs:161-199: start_conversion reads the state and sends
\* OverwriteDecision, at once or when the dialog is answered; the button is
\* enabled whatever is_processing is (view.rs:72-77)
ConvertClicked ==
    /\ app.pending + app.batches < MaxBatches
    /\ app' = [app EXCEPT !.pending = app.pending + 1, !.last = NoLast]
    /\ UNCHANGED AppRest

\* main.rs:202-241: process_conversion(proceed)
OverwriteDecision ==
    /\ app.pending > 0
    /\ \E proceed \in BOOLEAN :
        IF ~proceed
        THEN app' = [app EXCEPT !.pending = app.pending - 1, !.last = NoLast]
        ELSE app' = [app EXCEPT
                       !.pending = app.pending - 1,
                       !.batches = app.batches + 1,
                       !.is_processing = TRUE,
                       !.files = AllProcessing(app.files),
                       !.tasks = [i \in 1..MaxFiles |->
                                    IF i \in Spawned(app.files,
                                                     app.max_batch_size)
                                    THEN app.tasks[i] + 1 ELSE app.tasks[i]],
                       !.last = [NoLast EXCEPT !.op = "OverwriteDecision",
                                               !.files = app.files]]
    /\ UNCHANGED AppRest

\* main.rs:228-236 and handlers.rs:231-251: a task ends with the Result of
\* convert_image and its FileConverted(id, res) is handled
FileConverted ==
    /\ \E id \in 1..MaxFiles, res \in {"Ok", "Err"} :
        /\ app.tasks[id] > 0
        /\ LET files == SetOutcome(app.files, id, res)
               over == ~AnyProcessing(files)
           IN  app' = [app EXCEPT
                         !.tasks[id] = app.tasks[id] - 1,
                         !.files = files,
                         !.is_processing = IF over THEN FALSE
                                           ELSE app.is_processing,
                         !.finishing = IF over THEN app.finishing + 1
                                       ELSE app.finishing,
                         !.produced = IF over THEN app.produced + 1
                                      ELSE app.produced,
                         !.last = [NoLast EXCEPT !.op = "FileConverted",
                                                 !.files = app.files,
                                                 !.id = id, !.res = res]]
    /\ UNCHANGED AppRest

\* main.rs:229-231: convert_image panicked (convert.rs:364-367), the
\* JoinError makes expect("Task panicked") panic in the task's future and no
\* message is sent
TaskPanicked ==
    /\ \E id \in 1..MaxFiles :
        /\ app.tasks[id] > 0
        /\ app' = [app EXCEPT !.tasks[id] = app.tasks[id] - 1,
                              !.last = NoLast]
    /\ UNCHANGED AppRest

\* handlers.rs:254-272 and main.rs:124-130; the settings saved and the log
\* written are as the options are, which no action here changes
ConversionFinished ==
    /\ app.finishing > 0
    /\ app' = [app EXCEPT !.finishing = app.finishing - 1,
                          !.is_processing = FALSE,
                          !.last = NoLast]
    /\ UNCHANGED AppRest

NextBatch ==
    \/ FilesSelected
    \/ ExternalFilesDropped
    \/ ToggleSelection
    \/ DeleteSelected
    \/ ClearList
    \/ ConvertClicked
    \/ OverwriteDecision
    \/ FileConverted
    \/ TaskPanicked
    \/ ConversionFinished

SpecBatch == InitApp /\ [][NextBatch]_vars

\* the runtime delivers every message it holds and every spawned task ends
\* (convert_image has no suspension point and no wait); the user's actions
\* are under no obligation
SpecBatchFair ==
    /\ InitApp
    /\ [][NextBatch]_vars
    /\ WF_vars(OverwriteDecision)
    /\ WF_vars(FileConverted \/ TaskPanicked)
    /\ WF_vars(ConversionFinished)

(***************************************************************************)
(* C22                                                                     *)
(***************************************************************************)
\* the latest message was the FileConverted of a failed conversion
FailedOne == app.last.op = "FileConverted" /\ app.last.res = "Err"

\* that message changed the file with its id to Error and no other file
Isolated ==
    FailedOne =>
        /\ Len(app.files) = Len(app.last.files)
        /\ \A k \in 1..Len(app.files) :
              IF app.last.files[k].id = app.last.id
              THEN app.files[k] = [app.last.files[k] EXCEPT !.status = "Error"]
              ELSE app.files[k] = app.last.files[k]

\* no file is Processing and the batch is over
Settled == ~AnyProcessing(app.files) /\ ~app.is_processing

\* C22: in a batch a failed conversion sets only its own file's status to
\* Error and leaves every other file as it is; every other file's
\* conversion still comes to Done or Error and the batch finishes.
C22_FailureIsolated == [](Isolated) /\ (FailedOne ~> Settled)

\* three files, batch size two: the first failed, the second is done, no
\* task is left and the third is Processing for good
C22_Witness ==
    /\ Len(app.files) = 3
    /\ app.batches = 1
    /\ app.files[1].status = "Error"
    /\ app.files[2].status = "Done"
    /\ app.files[3].status = "Processing"
    /\ app.is_processing
    /\ \A i \in 1..MaxFiles : app.tasks[i] = 0
    /\ app.pending = 0
    /\ app.finishing = 0

(***************************************************************************)
(* C24                                                                     *)
(***************************************************************************)
\* C24: after OverwriteDecision(true), for every length of the list, every
\* file set to Processing eventually becomes Done or Error and
\* is_processing eventually returns to false.
C24_BatchCompletes == app.is_processing ~> Settled

\* an empty list was confirmed: is_processing is set and no task or message
\* is in flight to reset it
C24_Witness ==
    /\ app.last.op = "OverwriteDecision"
    /\ app.files = << >>
    /\ app.is_processing
    /\ \A i \in 1..MaxFiles : app.tasks[i] = 0
    /\ app.pending = 0
    /\ app.finishing = 0

(***************************************************************************)
(* C26                                                                     *)
(***************************************************************************)
\* C26: in every state reached through the handlers is_processing is true
\* exactly when some file has the status Processing.
C26_ProcessingIffSomeFile == app.is_processing <=> AnyProcessing(app.files)

\* a batch was confirmed and the list cleared while its tasks run
C26_Witness ==
    /\ app.is_processing
    /\ app.files = << >>
    /\ app.batches = 1
    /\ \E i \in 1..MaxFiles : app.tasks[i] > 0

(***************************************************************************)
(* C27                                                                     *)
(***************************************************************************)
\* no decision and no task is in flight
Quiet == app.pending = 0 /\ \A i \in 1..MaxFiles : app.tasks[i] = 0

\* C27: one ConversionFinished is produced for each confirmed batch, never
\* more, and when the tasks have ended there is one for each, also when a
\* second batch is confirmed while the first runs.
C27_OneFinishedPerBatch ==
    /\ app.produced <= app.batches
    /\ Quiet => app.produced = app.batches

\* two batches over the same files, the second confirmed while the first
\* ran, and no file deleted: more ConversionFinished than batches
C27_Witness ==
    /\ app.batches = 2
    /\ app.produced > 2
    /\ app.next_id = Len(app.files) + 1
    /\ Len(app.files) <= app.max_batch_size

(***************************************************************************)
(* SpecSettings: save_settings and load_settings (settings.rs:36-168) over *)
(* the settings table, with the two handlers of handlers.rs:169-181.       *)
(* A value of the table is a string, a sequence of character codes; a key  *)
(* that has no row is [set |-> FALSE].                                     *)
(***************************************************************************)
StrTrue  == <<116, 114, 117, 101>>
StrFalse == <<102, 97, 108, 115, 101>>
StrJpegName == <<74, 112, 101, 103>>
StrPngName  == <<80, 110, 103>>
StrWebPName == <<87, 101, 98, 80>>

NoRow == [set |-> FALSE, v |-> << >>]
Row(s) == [set |-> TRUE, v |-> s]

BoolStr(b) == IF b THEN StrTrue ELSE StrFalse

NoFolder == [some |-> FALSE, path |-> << >>]

\* state.rs:88-110
DefaultOptions ==
    [format |-> "Jpeg", quality |-> 80, png_compressed |-> TRUE,
     resize |-> FALSE, target_width |-> << >>, target_height |-> << >>,
     prefix |-> << >>, find_pattern |-> << >>, replace_with |-> << >>,
     auto_suffix |-> FALSE, use_custom_output |-> FALSE,
     custom_output_path |-> NoFolder, keep_metadata |-> FALSE,
     generate_log |-> FALSE, add_numbering |-> FALSE, is_dark_mode |-> FALSE,
     max_batch_size |-> 50]

\* settings.rs:27-34 before the first save: the table exists and is empty
EmptyDb ==
    [format |-> NoRow, quality |-> NoRow, png_compressed |-> NoRow,
     resize |-> NoRow, target_width |-> NoRow, target_height |-> NoRow,
     prefix |-> NoRow, auto_suffix |-> NoRow, keep_metadata |-> NoRow,
     use_custom_output |-> NoRow, custom_output_path |-> NoRow,
     generate_log |-> NoRow, add_numbering |-> NoRow, is_dark_mode |-> NoRow,
     max_batch_size |-> NoRow]

\* settings.rs:101-168 with a connection: INSERT OR REPLACE of one row for
\* each of the fifteen keys
save_settings(db, o) ==
    [format |-> Row(CASE o.format = "Jpeg" -> StrJpegName
                      [] o.format = "Png" -> StrPngName
                      [] o.format = "WebP" -> StrWebPName),
     quality |-> Row(ToDecimal(o.quality)),
     png_compressed |-> Row(BoolStr(o.png_compressed)),
     resize |-> Row(BoolStr(o.resize)),
     target_width |-> Row(o.target_width),
     target_height |-> Row(o.target_height),
     prefix |-> Row(o.prefix),
     auto_suffix |-> Row(BoolStr(o.auto_suffix)),
     keep_metadata |-> Row(BoolStr(o.keep_metadata)),
     use_custom_output |-> Row(BoolStr(o.use_custom_output)),
     custom_output_path |-> Row(IF o.custom_output_path.some
                                THEN o.custom_output_path.path ELSE << >>),
     generate_log |-> Row(BoolStr(o.generate_log)),
     add_numbering |-> Row(BoolStr(o.add_numbering)),
     is_dark_mode |-> Row(BoolStr(o.is_dark_mode)),
     max_batch_size |-> Row(ToDecimal(o.max_batch_size))]

\* str::parse of an unsigned type with the largest value max, or the default
ParseOr(s, max, default) ==
    LET p == ParseU32(s)
    IN  IF p.ok /\ p.value <= max THEN p.value ELSE default

\* settings.rs:37-98 with a connection: the defaults, then every key that
\* has a row
load_settings(db) ==
    LET d == DefaultOptions
        flag(row, was) == IF row.set THEN row.v = StrTrue ELSE was
        text(row, was) == IF row.set THEN row.v ELSE was
    IN  [format |-> IF ~db.format.set THEN d.format
                    ELSE IF db.format.v = StrPngName THEN "Png"
                    ELSE IF db.format.v = StrWebPName THEN "WebP"
                    ELSE "Jpeg",
         quality |-> IF db.quality.set THEN ParseOr(db.quality.v, 255, 80)
                     ELSE d.quality,
         png_compressed |-> flag(db.png_compressed, d.png_compressed),
         resize |-> flag(db.resize, d.resize),
         target_width |-> text(db.target_width, d.target_width),
         target_height |-> text(db.target_height, d.target_height),
         prefix |-> text(db.prefix, d.prefix),
         find_pattern |-> d.find_pattern,
         replace_with |-> d.replace_with,
         auto_suffix |-> flag(db.auto_suffix, d.auto_suffix),
         use_custom_output |-> flag(db.use_custom_output, d.use_custom_output),
         custom_output_path |->
             IF db.custom_output_path.set /\ db.custom_output_path.v # << >>
             THEN [some |-> TRUE, path |-> db.custom_output_path.v]
             ELSE d.custom_output_path,
         keep_metadata |-> flag(db.keep_metadata, d.keep_metadata),
         generate_log |-> flag(db.generate_log, d.generate_log),
         add_numbering |-> flag(db.add_numbering, d.add_numbering),
         is_dark_mode |-> flag(db.is_dark_mode, d.is_dark_mode),
         max_batch_size |-> IF db.max_batch_size.set
                            THEN ParseOr(db.max_batch_size.v, U32_MAX, 10)
                            ELSE d.max_batch_size]

\* the options the controls of the view can set, and max_batch_size as the
\* table can hold it
SettingsOptions ==
    { [DefaultOptions EXCEPT !.format = f, !.quality = q, !.prefix = p,
                             !.find_pattern = fp, !.replace_with = rw,
                             !.keep_metadata = k, !.custom_output_path = c,
                             !.use_custom_output = c.some,
                             !.max_batch_size = n] :
        f \in {"Jpeg", "Png", "WebP"},
        q \in {1, 80, 100},
        p \in {<< >>, <<111, 117, 116, 95>>},
        fp \in {<< >>, StrPhoto},
        rw \in {<< >>, <<112, 105, 99>>},
        k \in BOOLEAN,
        c \in {NoFolder, [some |-> TRUE, path |-> <<47, 111, 117, 116>>]},
        n \in {10, 50} }

NoOptions == [some |-> FALSE, opts |-> DefaultOptions]

InitSettings ==
    /\ \E o \in SettingsOptions :
        store = [db |-> EmptyDb, opts |-> o, saved |-> FALSE,
                 read |-> FALSE, loaded |-> NoOptions]
    /\ ParIdle
    /\ AppIdle
    /\ MagicIdle
    /\ PatchIdle
    /\ ConvertIdle
    /\ CarryIdle
    /\ TurnIdle
    /\ NameIdle

SettingsRest == <<magicVars, patchVars, convertVars, carry, turn, naming, par,
                  app>>

\* settings.rs:101-168: save_settings(&state.options); nothing is written
\* when init_db fails
SaveSettings ==
    /\ \E db_ok \in BOOLEAN :
        store' = [store EXCEPT
                    !.db = IF db_ok THEN save_settings(store.db, store.opts)
                           ELSE store.db,
                    !.saved = db_ok,
                    !.read = FALSE,
                    !.loaded = NoOptions]
    /\ UNCHANGED SettingsRest

\* handlers.rs:169-174
FindPatternChanged ==
    /\ \E v \in {<< >>, StrPhoto, StrAa}, db_ok \in BOOLEAN :
        LET o == [store.opts EXCEPT !.find_pattern = v]
        IN  store' = [store EXCEPT
                        !.opts = o,
                        !.db = IF db_ok THEN save_settings(store.db, o)
                               ELSE store.db,
                        !.saved = db_ok,
                        !.read = FALSE,
                        !.loaded = NoOptions]
    /\ UNCHANGED SettingsRest

\* handlers.rs:176-181
ReplaceWithChanged ==
    /\ \E v \in {<< >>, <<112, 105, 99>>}, db_ok \in BOOLEAN :
        LET o == [store.opts EXCEPT !.replace_with = v]
        IN  store' = [store EXCEPT
                        !.opts = o,
                        !.db = IF db_ok THEN save_settings(store.db, o)
                               ELSE store.db,
                        !.saved = db_ok,
                        !.read = FALSE,
                        !.loaded = NoOptions]
    /\ UNCHANGED SettingsRest

\* settings.rs:37-98: load_settings(), the defaults when init_db fails
LoadSettings ==
    /\ ~store.loaded.some
    /\ \E db_ok \in BOOLEAN :
        store' = [store EXCEPT
                    !.loaded = [some |-> TRUE,
                                opts |-> IF db_ok THEN load_settings(store.db)
                                         ELSE DefaultOptions],
                    !.read = db_ok]
    /\ UNCHANGED SettingsRest

NextSettings ==
    \/ SaveSettings
    \/ FindPatternChanged
    \/ ReplaceWithChanged
    \/ LoadSettings

SpecSettings == InitSettings /\ [][NextSettings]_vars

(***************************************************************************)
(* C25                                                                     *)
(***************************************************************************)
\* the options were saved and then loaded, both with the table at hand
RoundTrip == store.saved /\ store.loaded.some /\ store.read

\* C25: load_settings called after save_settings(o) returns options equal
\* to o in every field, find_pattern, replace_with and max_batch_size
\* included.
C25_LoadAfterSave == RoundTrip => store.loaded.opts = store.opts

\* a find pattern was typed, saved by its handler and is not in what
\* load_settings returns, while every field that has a key came back
C25_Witness ==
    /\ RoundTrip
    /\ store.opts.find_pattern = StrPhoto
    /\ store.loaded.opts.find_pattern = << >>
    /\ store.loaded.opts = [store.opts EXCEPT !.find_pattern = << >>,
                                              !.replace_with = << >>]
    /\ store.loaded.opts.max_batch_size = 10
    /\ store.loaded.opts.quality = 100

=============================================================================
